---- MODULE Spec2Model ----
(***************************************************************************)
(* The search-result tree of the workbench search view: FolderMatchImpl    *)
(* and its subclasses (folder nodes), the file matches they hold and the   *)
(* notebook cell matches of a NotebookCompatibleFileMatch.                 *)
(*                                                                         *)
(* Objects live in two heaps, `folders` and `files`; an object is its      *)
(* index in the heap.  A handler of the program is an operator from a heap *)
(* record t = [folders, files, log, err] to the heap record after the      *)
(* call, so that the synchronous calls a handler makes (a fired event runs *)
(* its listeners before fire() returns) are nested operator calls.         *)
(***************************************************************************)
EXTENDS Integers, Sequences, FiniteSets, TLC

VARIABLES
    folders,    \* heap of folder matches: Seq of folder records
    files,      \* heap of file matches: Seq of file records
    log,        \* the _onChange.fire calls of the last operation, in order
    thrown,     \* whether the last operation threw (or its promise rejected)
    pending,    \* the replace call awaiting the replace service, or NoPending
    last,       \* the last operation: its name, receiver, file arguments and outcome
    echo,       \* the arguments of the addFileMatch call just made, or NoEcho
    hist,       \* whether only addFileMatch has run so far, and the paths given to the root
    nb          \* the live binding of the notebook file: widget, listeners, scheduler, finds

vars == <<folders, files, log, thrown, pending, last, echo, hist, nb>>

(***************************************************************************)
(* Bounds of the model.                                                    *)
(***************************************************************************)
MaxFiles == 2       \* file match objects ever constructed
MaxFolders == 2     \* intermediate folder objects ever constructed
MaxBatch == 2       \* raw file matches in one addFileMatch batch

Nil == 0            \* undefined / null object reference
Heading == 0        \* the ITextSearchHeading above the top-level folders

(***************************************************************************)
(* URIs are sequences of path segments.  NullResource is the `null`        *)
(* resource of the no-root folder.                                         *)
(***************************************************************************)
NullResource == <<"<null>">>

IsEqual(a, b) == a = b

IsPrefix(p, q) == Len(p) <= Len(q) /\ SubSeq(q, 1, Len(p)) = p

\* extUri.isEqualOrParent(base, parentCandidate): a comparison of the raw
\* paths, segment by segment, without normalisation.
IsEqualOrParent(base, parentCandidate) ==
    /\ base # NullResource
    /\ parentCandidate # NullResource
    /\ IsPrefix(parentCandidate, base)

\* extUri.dirname: the parent directory; the file-system root is its own parent.
Dirname(uri) == IF Len(uri) = 0 THEN uri ELSE SubSeq(uri, 1, Len(uri) - 1)

\* extUri.normalizePath: resolves "." and ".." segments.
RECURSIVE NormalizeFrom(_, _, _)
NormalizeFrom(uri, i, acc) ==
    IF i > Len(uri) THEN acc
    ELSE IF uri[i] = "." THEN NormalizeFrom(uri, i + 1, acc)
    ELSE IF uri[i] = ".." THEN NormalizeFrom(uri, i + 1, Dirname(acc))
    ELSE NormalizeFrom(uri, i + 1, Append(acc, uri[i]))

NormalizePath(uri) == NormalizeFrom(uri, 1, <<>>)

\* extUri.removeTrailingPathSeparator: a trailing separator is an empty last
\* segment.
RemoveTrailingPathSeparator(uri) ==
    IF Len(uri) > 0 /\ uri[Len(uri)] = "" THEN SubSeq(uri, 1, Len(uri) - 1) ELSE uri

(***************************************************************************)
(* ResourceMap / Map: insertion-ordered maps, as sequences of [k, v].      *)
(***************************************************************************)
MapKeys(m) == {m[i].k : i \in 1..Len(m)}

MapHas(m, key) == key \in MapKeys(m)

MapGet(m, key) ==
    IF MapHas(m, key) THEN (CHOOSE e \in {m[i] : i \in 1..Len(m)} : e.k = key).v ELSE Nil

\* Map.set keeps the position of a key that is already there.
MapSet(m, key, val) ==
    IF MapHas(m, key)
    THEN [i \in 1..Len(m) |-> IF m[i].k = key THEN [k |-> key, v |-> val] ELSE m[i]]
    ELSE Append(m, [k |-> key, v |-> val])

MapDelete(m, key) == SelectSeq(m, LAMBDA e : e.k # key)

MapValues(m) == [i \in 1..Len(m) |-> m[i].v]

SeqToSet(s) == {s[i] : i \in 1..Len(s)}

\* TernarySearchTree.findSubstr: the value stored under the longest key that
\* is a prefix of (or equal to) the given key.
FindSubstr(m, key) ==
    LET cands == {i \in 1..Len(m) : IsPrefix(m[i].k, key)}
    IN  IF cands = {} THEN Nil
        ELSE m[CHOOSE i \in cands : \A j \in cands : Len(m[j].k) <= Len(m[i].k)].v

(***************************************************************************)
(* File matches.  A file record is                                         *)
(*   [kind, resource, parent, text, cells, disposed]                       *)
(* text  : the _textMatches map, match key -> [ro], a match key standing   *)
(*         for one range and matched text (the rest of a Match's id);      *)
(* cells : the _cellMatches map of a notebook-compatible file, an ordered  *)
(*         map from cell id to a cell record                               *)
(*           [cellIndex, cell, content, webview, fresh],                   *)
(*         content and webview being maps from match id to                 *)
(*           [webviewIndex, key], and fresh saying that the CellMatch      *)
(*         object was constructed by the updateNotebookMatches run last.   *)
(***************************************************************************)
Undefined == <<"undefined">>            \* a missing ICellViewModel
NoIndex == 0 - 1                        \* webviewIndex === undefined
EmptyFn == [x \in {} |-> x]

\* CellSearchModel instances are <<"search", n>>, live cell view models
\* <<"view", n>>.
HasCellViewModel(c) == ~(c.cell # Undefined /\ c.cell[1] = "search")

\* CellMatch.id: this._cell?.id ?? `${rawCellPrefix}${this.cellIndex}`
CellId(c) == IF c.cell # Undefined THEN c.cell ELSE <<"rawCell", c.cellIndex>>

\* getIDFromINotebookCellMatch
RawCellId(rawCell) == IF rawCell.cell # Undefined THEN rawCell.cell ELSE <<"rawCell", rawCell.index>>

IsWebviewMatch(m) == m.webviewIndex # NoIndex

\* The part of MatchInNotebook._id that varies within one file: the cell
\* index, '_' + webviewIndex when webviewIndex is truthy (not undefined and
\* not 0), the match type string and the range and text.  The type string is
\* computed before _webviewIndex is assigned, so it is always 'content'.
NotebookMatchId(cellIndex, webviewIndex, key) ==
    <<cellIndex,
      IF webviewIndex # NoIndex /\ webviewIndex # 0 THEN webviewIndex ELSE NoIndex,
      "content", key>>

\* MatchInNotebook.isReadonly: super.isReadonly() is false (the constructor
\* passes false), so what is left is the cell and the webview test.
MatchInNotebookIsReadonly(c, m) == (~HasCellViewModel(c)) \/ IsWebviewMatch(m)

CellMatchCount(c) == Cardinality(DOMAIN c.content) + Cardinality(DOMAIN c.webview)

RECURSIVE SumCells(_, _)
SumCells(cells, i) ==
    IF i > Len(cells) THEN 0 ELSE CellMatchCount(cells[i].v) + SumCells(cells, i + 1)

\* FileMatch.count(): matches().length, the text matches and every cell's.
FileCount(f) == Cardinality(DOMAIN f.text) + SumCells(f.cells, 1)

\* FileMatch.hasReadonlyMatches(): some match is read-only.
HasReadonlyMatches(f) ==
    \/ \E k \in DOMAIN f.text : f.text[k].ro
    \/ \E i \in 1..Len(f.cells) :
          LET c == f.cells[i].v
          IN  \/ \E id \in DOMAIN c.content : MatchInNotebookIsReadonly(c, c.content[id])
              \/ \E id \in DOMAIN c.webview : MatchInNotebookIsReadonly(c, c.webview[id])

\* textSearchResultToMatches + FileMatchImpl.add for every result: the matches
\* are stored under their ids, an AI-contributed match being read-only.
AddTextResults(text, results, isAiContributed) ==
    [k \in (DOMAIN text) \cup results |->
        IF k \in results THEN [ro |-> isAiContributed] ELSE text[k]]

\* A faulty loop that numbers the matches as they come instead of storing
\* each under its id.
AddNotebookMatchesNumbered(map, cellIndex, raws) ==
    LET n == Cardinality(DOMAIN map)
        ids == {<<NotebookMatchId(cellIndex, r[1], r[2]), n>> : r \in raws}
    IN  [id \in (DOMAIN map) \cup ids |->
            IF id \in ids
            THEN LET r == CHOOSE r \in raws : <<NotebookMatchId(cellIndex, r[1], r[2]), n>> = id
                 IN  [webviewIndex |-> r[1], key |-> r[2]]
            ELSE map[id]]

\* textSearchMatchesToNotebookMatches + the loop of addContentMatches /
\* addWebviewMatches: each match is stored under its id.
\* `raws` is a set of <<webviewIndex, key>>.
AddNotebookMatches(map, cellIndex, raws) ==
    LET ids == {NotebookMatchId(cellIndex, r[1], r[2]) : r \in raws}
    IN  [id \in (DOMAIN map) \cup ids |->
            IF id \in ids
            THEN LET r == CHOOSE r \in raws : NotebookMatchId(cellIndex, r[1], r[2]) = id
                 IN  [webviewIndex |-> r[1], key |-> r[2]]
            ELSE map[id]]

\* CellMatch.addContentMatches (content results carry no webviewIndex)
AddContentMatches(c, contentResults) ==
    [c EXCEPT !.content = AddNotebookMatches(@, c.cellIndex, {<<NoIndex, k>> : k \in contentResults})]

\* CellMatch.addWebviewMatches
AddWebviewMatches(c, webviewResults) ==
    [c EXCEPT !.webview = AddNotebookMatches(@, c.cellIndex, webviewResults)]

\* A CellMatch object has changed: every key of the map that holds the
\* object, known by the id it had, shows the change.
ReplaceCellMatch(cells, id, c) ==
    [i \in 1..Len(cells) |->
        IF CellId(cells[i].v) = id THEN [k |-> cells[i].k, v |-> c] ELSE cells[i]]

\* NotebookCompatibleFileMatch.addCellMatch: a new CellMatch replaces whatever
\* is stored under its id, then takes the webview and the content results.
AddCellMatch(f, rawCell) ==
    LET c0 == [cellIndex |-> rawCell.index, cell |-> rawCell.cell,
               content |-> EmptyFn, webview |-> EmptyFn, fresh |-> FALSE]
        c1 == AddContentMatches(AddWebviewMatches(c0, rawCell.webviewResults),
                                rawCell.contentResults)
    IN  [f EXCEPT !.cells = MapSet(@, CellId(c0), c1)]

RECURSIVE AddCellMatches(_, _, _)
AddCellMatches(f, rawCells, i) ==
    IF i > Len(rawCells) THEN f
    ELSE AddCellMatches(AddCellMatch(f, rawCells[i]), rawCells, i + 1)

\* The cell loop of addFileMatch for an existing notebook file: merge into
\* the cell match with the raw cell's id, or add a cell match.
RECURSIVE MergeCellMatches(_, _, _)
MergeCellMatches(f, rawCells, i) ==
    IF i > Len(rawCells) THEN f
    ELSE LET rawCell == rawCells[i]
             cid == RawCellId(rawCell)
             f1 == IF MapHas(f.cells, cid)
                   THEN [f EXCEPT !.cells = ReplaceCellMatch(@, CellId(MapGet(f.cells, cid)),
                            AddWebviewMatches(
                                AddContentMatches(MapGet(f.cells, cid), rawCell.contentResults),
                                rawCell.webviewResults))]
                   ELSE AddCellMatch(f, rawCell)
         IN  MergeCellMatches(f1, rawCells, i + 1)

(***************************************************************************)
(* Folder matches.  A folder record is                                     *)
(*   [kind, resource, id, parent, fileMatches, folderMatches,              *)
(*    folderMatchesMap, unDisposedFileMatches, unDisposedFolderMatches,    *)
(*    replacingAll, disposed, notified, registered, registeredFiles, ai]   *)
(* kind is "root" (FolderMatchWorkspaceRootImpl), "noroot"                 *)
(* (FolderMatchNoRootImpl) or "mid" (FolderMatchWithResourceImpl made by   *)
(* createIntermediateFolderMatch).  registered / registeredFiles are the   *)
(* child folders / files this folder _register()ed: they are disposed with *)
(* it.  disposed says that the folder's Disposable store, its emitters     *)
(* included, is disposed; notified counts the times the listeners of       *)
(* onDispose have been called.                                             *)
(***************************************************************************)
NewFolder(kind, resource, id, parent, ai) ==
    [kind |-> kind, resource |-> resource, id |-> id, parent |-> parent, ai |-> ai,
     fileMatches |-> <<>>, folderMatches |-> <<>>, folderMatchesMap |-> <<>>,
     unDisposedFileMatches |-> <<>>, unDisposedFolderMatches |-> <<>>,
     replacingAll |-> FALSE, disposed |-> FALSE, notified |-> 0,
     registered |-> <<>>, registeredFiles |-> <<>>]

Throw(t) == [t EXCEPT !.err = TRUE]

\* FolderMatchImpl.uriHasParent
UriHasParent(parent, child) == IsEqualOrParent(child, parent) /\ ~IsEqual(child, parent)

\* FolderMatchImpl.isInParentChain: walks from `this` up the parent links
\* while the item is a folder match, comparing ids.
RECURSIVE InParentChainFrom(_, _, _)
InParentChainFrom(t, item, F) ==
    IF item = Heading THEN FALSE
    ELSE IF t.folders[item].id = t.folders[F].id THEN TRUE
    ELSE InParentChainFrom(t, t.folders[item].parent, F)

IsInParentChain(t, T, F) == InParentChainFrom(t, T, F)

\* FolderMatchImpl.getFolderMatch
GetFolderMatch(t, F, resource) == FindSubstr(t.folders[F].folderMatchesMap, resource)

\* FolderMatchImpl.isEmpty
IsEmpty(t, F) == Len(t.folders[F].fileMatches) + Len(t.folders[F].folderMatches) = 0

\* A faulty doAddFolder that checks the parent chain and not the path.
DoAddFolderAnyPath(t, T, F) ==
    LET res == t.folders[F].resource
    IN  IF IsInParentChain(t, T, F) THEN Throw(t)
        ELSE [t EXCEPT !.folders[T].folderMatches = MapSet(@, res, F),
                       !.folders[T].folderMatchesMap = MapSet(@, res, F),
                       !.folders[T].unDisposedFolderMatches = MapDelete(@, res)]

\* A faulty doAddFolder that checks the path and not the parent chain.
DoAddFolderUnguarded(t, T, F) ==
    LET me == t.folders[T]
        res == t.folders[F].resource
    IN  IF me.resource # NullResource /\ ~UriHasParent(me.resource, res) THEN Throw(t)
        ELSE [t EXCEPT !.folders[T].folderMatches = MapSet(@, res, F),
                       !.folders[T].folderMatchesMap = MapSet(@, res, F),
                       !.folders[T].unDisposedFolderMatches = MapDelete(@, res)]

\* FolderMatchImpl.doAddFolder
DoAddFolder(t, T, F) ==
    LET me == t.folders[T]
        res == t.folders[F].resource
    IN  IF me.resource # NullResource /\ ~UriHasParent(me.resource, res) THEN Throw(t)
        ELSE IF IsInParentChain(t, T, F) THEN Throw(t)
        ELSE [t EXCEPT !.folders[T].folderMatches = MapSet(@, res, F),
                       !.folders[T].folderMatchesMap = MapSet(@, res, F),
                       !.folders[T].unDisposedFolderMatches = MapDelete(@, res)]

\* A faulty doAddFile that leaves the pending-removed entry of the path.
DoAddFileKeepsPending(t, F, f) ==
    [t EXCEPT !.folders[F].fileMatches = MapSet(@, t.files[f].resource, f)]

\* FolderMatchImpl.doAddFile
DoAddFile(t, F, f) ==
    LET res == t.files[f].resource
    IN  [t EXCEPT !.folders[F].fileMatches = MapSet(@, res, f),
                  !.folders[F].unDisposedFileMatches = MapDelete(@, res)]

\* FileMatchImpl.dispose: the file's emitters die with it, so its onChange
\* listener (the parent's onFileChange) is never called again.
FileDispose(t, f) == [t EXCEPT !.files[f].disposed = TRUE]

RECURSIVE DisposeFiles(_, _, _)
DisposeFiles(t, fs, i) ==
    IF i > Len(fs) THEN t ELSE DisposeFiles(FileDispose(t, fs[i]), fs, i + 1)

\* FolderMatchImpl.disposeMatches
RECURSIVE DisposeMatches(_, _)
RECURSIVE DisposeMatchesOfAll(_, _, _)
DisposeMatchesOfAll(t, Fs, i) ==
    IF i > Len(Fs) THEN t ELSE DisposeMatchesOfAll(DisposeMatches(t, Fs[i]), Fs, i + 1)

\* A faulty disposeMatches that forgets the files removed but not disposed.
DisposeMatchesKeepsPending(t, F) ==
    LET me == t.folders[F]
        t1 == DisposeFiles(t, MapValues(me.fileMatches), 1)
        t2 == DisposeMatchesOfAll(t1, MapValues(me.folderMatches), 1)
    IN  [t2 EXCEPT !.folders[F].fileMatches = <<>>,
                   !.folders[F].folderMatches = <<>>,
                   !.folders[F].unDisposedFolderMatches = <<>>]

DisposeMatches(t, F) ==
    LET me == t.folders[F]
        t1 == DisposeFiles(t, MapValues(me.fileMatches), 1)
        t2 == DisposeMatchesOfAll(t1, MapValues(me.folderMatches), 1)
        t3 == DisposeFiles(t2, MapValues(me.unDisposedFileMatches), 1)
        t4 == DisposeMatchesOfAll(t3, MapValues(me.unDisposedFolderMatches), 1)
    IN  [t4 EXCEPT !.folders[F].fileMatches = <<>>,
                   !.folders[F].folderMatches = <<>>,
                   !.folders[F].unDisposedFileMatches = <<>>,
                   !.folders[F].unDisposedFolderMatches = <<>>]

\* FolderMatchImpl.dispose: disposeMatches(), _onDispose.fire() (the parent
\* drops its onChange listener), super.dispose() (the emitters and everything
\* this folder registered).  Disposing again runs disposeMatches() again and
\* nothing else: the emitter and the store are already disposed.
RECURSIVE Dispose(_, _)
RECURSIVE DisposeAll(_, _, _)
DisposeAll(t, Fs, i) ==
    IF i > Len(Fs) THEN t ELSE DisposeAll(Dispose(t, Fs[i]), Fs, i + 1)

Dispose(t, F) ==
    LET t1 == DisposeMatches(t, F)
    IN  IF t.folders[F].disposed THEN t1
        ELSE LET t2 == [t1 EXCEPT !.folders[F].disposed = TRUE,
                                  !.folders[F].notified = @ + 1]
                 t3 == DisposeAll(t2, t.folders[F].registered, 1)
             IN  DisposeFiles(t3, t.folders[F].registeredFiles, 1)

\* FolderMatchImpl.getDownstreamFileMatch
RECURSIVE GetDownstreamFileMatch(_, _, _)
GetDownstreamFileMatch(t, F, uri) ==
    LET direct == MapGet(t.folders[F].fileMatches, uri)
    IN  IF direct # Nil THEN direct
        ELSE LET folderMatch == GetFolderMatch(t, F, uri)
             IN  IF folderMatch = Nil THEN Nil
                 ELSE GetDownstreamFileMatch(t, folderMatch, uri)

\* A faulty allDownstreamFileMatches that forgets the child folders.
DirectFileMatchesOnly(t, F) == MapValues(t.folders[F].fileMatches)

\* FolderMatchImpl.allDownstreamFileMatches
RECURSIVE AllDownstreamFileMatches(_, _)
RECURSIVE DownstreamOfAll(_, _, _)
DownstreamOfAll(t, Fs, i) ==
    IF i > Len(Fs) THEN <<>>
    ELSE AllDownstreamFileMatches(t, Fs[i]) \o DownstreamOfAll(t, Fs, i + 1)

AllDownstreamFileMatches(t, F) ==
    MapValues(t.folders[F].fileMatches)
        \o DownstreamOfAll(t, MapValues(t.folders[F].folderMatches), 1)

\* FolderMatchImpl.recursiveFileCount
RecursiveFileCount(t, F) == Len(AllDownstreamFileMatches(t, F))

RECURSIVE SumCounts(_, _, _)
SumCounts(t, fs, i) ==
    IF i > Len(fs) THEN 0 ELSE FileCount(t.files[fs[i]]) + SumCounts(t, fs, i + 1)

\* FolderMatchImpl.recursiveMatchCount
RecursiveMatchCount(t, F) == SumCounts(t, AllDownstreamFileMatches(t, F), 1)

\* FolderMatchImpl.matches(): the files, then the folders.
Matches(t, F) ==
    [files |-> MapValues(t.folders[F].fileMatches),
     folders |-> MapValues(t.folders[F].folderMatches)]

\* getFileMatches: the files, then every folder's downstream files.
GetFileMatches(t, fs, Fs) == fs \o DownstreamOfAll(t, Fs, 1)

(***************************************************************************)
(* Events.  Fire(t, F, ev) is F._onChange.fire(ev): the call is logged;    *)
(* the emitter of a disposed folder delivers nothing; the emitter of an    *)
(* intermediate folder runs the listener its creator installed in          *)
(* configureIntermediateMatch, the creator's onFolderChange.  An error     *)
(* thrown by a listener is caught by the emitter and handed to the         *)
(* unexpected-error handler: it does not reach the caller of fire().       *)
(***************************************************************************)
ChangeEvent(elements, added, removed) ==
    [elements |-> elements, added |-> added, removed |-> removed]

RECURSIVE Fire(_, _, _)
RECURSIVE OnFolderChange(_, _, _, _)
RECURSIVE DoRemoveFile(_, _, _, _, _, _)
RECURSIVE RemoveLoop(_, _, _, _, _, _, _, _)

Fire(t, F, ev) ==
    LET me == t.folders[F]
        t1 == [t EXCEPT !.log = Append(@, [on |-> F, ev |-> ev, delivered |-> ~me.disposed])]
    IN  IF me.disposed \/ me.kind # "mid" THEN t1
        ELSE [OnFolderChange(t1, me.parent, F, ev) EXCEPT !.err = FALSE]

\* A faulty onFolderChange that forwards the event and leaves the emptied
\* child folder in place.
OnFolderChangeKeepsEmpty(t, P, C, ev) ==
    LET res == t.folders[C].resource
        t1 == IF ~MapHas(t.folders[P].folderMatches, res) THEN DoAddFolder(t, P, C) ELSE t
    IN  IF t1.err THEN t1 ELSE Fire(t1, P, ev)

\* FolderMatchImpl.onFolderChange
OnFolderChange(t, P, C, ev) ==
    LET res == t.folders[C].resource
        t1 == IF ~MapHas(t.folders[P].folderMatches, res) THEN DoAddFolder(t, P, C) ELSE t
    IN  IF t1.err THEN t1
        ELSE LET t2 == IF IsEmpty(t1, C)
                       THEN Dispose([t1 EXCEPT !.folders[P].folderMatches = MapDelete(@, res)], C)
                       ELSE t1
             IN  Fire(t2, P, ev)

\* FolderMatchImpl.doRemoveFile: the loop over fileMatches from index i on,
\* `removed` being the files removed so far.
RemoveLoop(t, F, fileMatches, i, removed, dispose, trigger, keepReadonly) ==
    IF t.err THEN t
    ELSE IF i > Len(fileMatches)
    THEN IF trigger THEN Fire(t, F, ChangeEvent(removed, FALSE, TRUE)) ELSE t
    ELSE LET match == fileMatches[i]
             res == t.files[match].resource
         IN  IF MapGet(t.folders[F].fileMatches, res) # Nil
             THEN IF keepReadonly /\ HasReadonlyMatches(t.files[match])
                  THEN RemoveLoop(t, F, fileMatches, i + 1, removed, dispose, trigger, keepReadonly)
                  ELSE LET t1 == [t EXCEPT !.folders[F].fileMatches = MapDelete(@, res)]
                           t2 == IF dispose THEN FileDispose(t1, match)
                                 ELSE [t1 EXCEPT !.folders[F].unDisposedFileMatches =
                                                    MapSet(@, res, match)]
                       IN  RemoveLoop(t2, F, fileMatches, i + 1, Append(removed, match),
                                      dispose, trigger, keepReadonly)
             ELSE LET folder == GetFolderMatch(t, F, res)
                  IN  IF folder # Nil
                      THEN RemoveLoop(DoRemoveFile(t, folder, <<match>>, dispose, trigger, FALSE),
                                      F, fileMatches, i + 1, removed, dispose, trigger, keepReadonly)
                      ELSE Throw(t)

DoRemoveFile(t, F, fileMatches, dispose, trigger, keepReadonly) ==
    RemoveLoop(t, F, fileMatches, 1, <<>>, dispose, trigger, keepReadonly)

\* A faulty onFileChange that fires whatever replacingAll says.
OnFileChangeAlwaysFires(t, F, f, removedArg) ==
    LET res == t.files[f].resource
        has == MapHas(t.folders[F].fileMatches, res)
        t1 == IF ~has THEN DoAddFile(t, F, f) ELSE t
        zero == FileCount(t.files[f]) = 0
        t2 == IF zero THEN DoRemoveFile(t1, F, <<f>>, FALSE, FALSE, FALSE) ELSE t1
    IN  IF t2.err THEN t2
        ELSE Fire(t2, F, ChangeEvent(<<f>>, (~has) /\ ~zero, removedArg \/ zero))

\* FolderMatchImpl.onFileChange
OnFileChange(t, F, f, removedArg) ==
    LET res == t.files[f].resource
        has == MapHas(t.folders[F].fileMatches, res)
        t1 == IF ~has THEN DoAddFile(t, F, f) ELSE t
        zero == FileCount(t.files[f]) = 0
        t2 == IF zero THEN DoRemoveFile(t1, F, <<f>>, FALSE, FALSE, FALSE) ELSE t1
        added == (~has) /\ ~zero
        removed == removedArg \/ zero
    IN  IF t2.err THEN t2
        ELSE IF ~t.folders[F].replacingAll
        THEN Fire(t2, F, ChangeEvent(<<f>>, added, removed))
        ELSE t2

\* FileMatchImpl._onChange.fire({didRemove}): the listener installed by
\* createFileMatch / createAndConfigureFileMatch calls the parent's
\* onFileChange; a disposed file's emitter delivers nothing.  The emitter
\* catches what the listener throws.
FileFire(t, f, didRemove) ==
    IF t.files[f].disposed THEN t
    ELSE [OnFileChange(t, t.files[f].parent, f, didRemove) EXCEPT !.err = FALSE]

(***************************************************************************)
(* Construction.                                                           *)
(***************************************************************************)
\* FolderMatchImpl.createIntermediateFolderMatch: the new folder is
\* registered with its creator (a disposed store registers nothing), wired
\* to the creator's onFolderChange, then handed to doAddFolder.
CreateIntermediateFolderMatch(t, P, resource, id) ==
    LET C == Len(t.folders) + 1
        t1 == [t EXCEPT !.folders = Append(@, NewFolder("mid", resource, id, P, FALSE))]
        t2 == IF t.folders[P].disposed THEN t1
              ELSE [t1 EXCEPT !.folders[P].registered = Append(@, C)]
    IN  DoAddFolder(t2, P, C)

NewFile(kind, resource, parent) ==
    [kind |-> kind, resource |-> resource, parent |-> parent,
     text |-> EmptyFn, cells |-> <<>>, disposed |-> FALSE]

\* FileMatchImpl.createMatches for a file with no live text model: the raw
\* results become the file's matches.
CreateMatches(f, rawFileMatch, isAiContributed) ==
    [f EXCEPT !.text = AddTextResults(@, rawFileMatch.results, isAiContributed)]

\* FolderMatchWorkspaceRootImpl.createFileMatch: a FileMatchImpl, its
\* matches, parent.doAddFile, and the onChange listener calling
\* parent.onFileChange.
CreateFileMatch(t, R, parent, rawFileMatch) ==
    LET f == Len(t.files) + 1
        fileMatch == CreateMatches(NewFile("plain", rawFileMatch.resource, parent),
                                   rawFileMatch, t.folders[R].ai)
    IN  DoAddFile([t EXCEPT !.files = Append(@, fileMatch)], parent, f)

\* FolderMatchWorkspaceRootImpl.normalizedUriParent
NormalizedUriParent(uri) == NormalizePath(Dirname(uri))

\* FolderMatchWithResourceImpl.normalizedResource
NormalizedResource(resource) == RemoveTrailingPathSeparator(NormalizePath(resource))

\* The while loop of createAndConfigureFileMatch: the directories between the
\* root and the file, outermost first; ok is FALSE when the walk up stops
\* moving before it meets the root.
RECURSIVE FileMatchParentParts(_, _, _)
FileMatchParentParts(uri, normalizedResource, parts) ==
    IF IsEqual(normalizedResource, uri) THEN [ok |-> TRUE, parts |-> parts]
    ELSE LET next == RemoveTrailingPathSeparator(NormalizedUriParent(uri))
         IN  IF IsEqual(uri, next) THEN [ok |-> FALSE, parts |-> <<uri>> \o parts]
             ELSE FileMatchParentParts(next, normalizedResource, <<uri>> \o parts)

\* The for loop of createAndConfigureFileMatch: the folder for each part is
\* looked up in the parent's index or created under the parent.
RECURSIVE WalkParts(_, _, _, _)
WalkParts(t, parent, parts, i) ==
    IF t.err \/ i > Len(parts) THEN [t |-> t, parent |-> parent]
    ELSE LET folderMatch == GetFolderMatch(t, parent, parts[i])
         IN  IF folderMatch # Nil THEN WalkParts(t, folderMatch, parts, i + 1)
             ELSE WalkParts(CreateIntermediateFolderMatch(t, parent, parts[i], parts[i]),
                            Len(t.folders) + 1, parts, i + 1)

\* FolderMatchWorkspaceRootImpl.createAndConfigureFileMatch
RootCreateAndConfigureFileMatch(t, R, rawFileMatch) ==
    LET me == t.folders[R]
    IN  IF ~UriHasParent(me.resource, rawFileMatch.resource) THEN Throw(t)
        ELSE LET pp == FileMatchParentParts(NormalizedUriParent(rawFileMatch.resource),
                                            NormalizedResource(me.resource), <<>>)
             IN  IF ~pp.ok THEN Throw(t)
                 ELSE LET w == WalkParts(t, R, pp.parts, 1)
                      IN  IF w.t.err THEN w.t
                          ELSE CreateFileMatch(w.t, R, w.parent, rawFileMatch)

\* A faulty no-root folder that creates its files as AI-contributed.
NoRootCreateAiFileMatch(t, N, rawFileMatch) ==
    LET f == Len(t.files) + 1
        fileMatch == CreateMatches(NewFile("plain", rawFileMatch.resource, N),
                                   rawFileMatch, TRUE)
        t1 == [t EXCEPT !.files = Append(@, fileMatch)]
        t2 == IF t.folders[N].disposed THEN t1
              ELSE [t1 EXCEPT !.folders[N].registeredFiles = Append(@, f)]
    IN  DoAddFile(t2, N, f)

\* FolderMatchNoRootImpl.createAndConfigureFileMatch: the file is registered
\* with the bucket, never AI-contributed, and a direct child.
NoRootCreateAndConfigureFileMatch(t, N, rawFileMatch) ==
    LET f == Len(t.files) + 1
        fileMatch == CreateMatches(NewFile("plain", rawFileMatch.resource, N),
                                   rawFileMatch, FALSE)
        t1 == [t EXCEPT !.files = Append(@, fileMatch)]
        t2 == IF t.folders[N].disposed THEN t1
              ELSE [t1 EXCEPT !.folders[N].registeredFiles = Append(@, f)]
    IN  DoAddFile(t2, N, f)

CreateAndConfigureFileMatch(t, F, rawFileMatch) ==
    IF t.folders[F].kind = "root" THEN RootCreateAndConfigureFileMatch(t, F, rawFileMatch)
    ELSE NoRootCreateAndConfigureFileMatch(t, F, rawFileMatch)

\* The branch of addFileMatch for a file that exists downstream: the text
\* results are added to it, and the cell results if it is a notebook file.
MergeRawFileMatch(f, rawFileMatch, isAiContributed) ==
    LET f1 == [f EXCEPT !.text = AddTextResults(@, rawFileMatch.results, isAiContributed)]
    IN  IF rawFileMatch.notebook /\ f.kind = "notebook"
        THEN MergeCellMatches(f1, rawFileMatch.cellResults, 1)
        ELSE f1

\* FolderMatchImpl.addFileMatch: the forEach over the raw batch.  The result
\* is the heap with the lists `added` and `updated`.
RECURSIVE AddFileMatchLoop(_, _, _, _, _, _, _)
AddFileMatchLoop(t, F, raw, i, added, updated, isAiContributed) ==
    IF t.err \/ i > Len(raw) THEN [t |-> t, added |-> added, updated |-> updated]
    ELSE LET rawFileMatch == raw[i]
             existingFileMatch == GetDownstreamFileMatch(t, F, rawFileMatch.resource)
         IN  IF existingFileMatch # Nil
             THEN AddFileMatchLoop(
                     [t EXCEPT !.files[existingFileMatch] =
                                   MergeRawFileMatch(@, rawFileMatch, isAiContributed)],
                     F, raw, i + 1, added, Append(updated, existingFileMatch), isAiContributed)
             ELSE IF t.folders[F].kind \in {"root", "noroot"}
             THEN LET t1 == CreateAndConfigureFileMatch(t, F, rawFileMatch)
                  IN  AddFileMatchLoop(t1, F, raw, i + 1,
                                       IF t1.err THEN added ELSE Append(added, Len(t1.files)),
                                       updated, isAiContributed)
             ELSE AddFileMatchLoop(t, F, raw, i + 1, added, updated, isAiContributed)

\* A faulty addFileMatch that fires its event whether silent or not.
AddFileMatchNeverSilent(t, F, raw, silent, isAiContributed) ==
    LET r == AddFileMatchLoop(t, F, raw, 1, <<>>, <<>>, isAiContributed)
        elements == r.added \o r.updated
    IN  IF r.t.err THEN r
        ELSE IF Len(elements) > 0
        THEN [r EXCEPT !.t = Fire(r.t, F, ChangeEvent(elements, Len(r.added) > 0, FALSE))]
        ELSE r

AddFileMatch(t, F, raw, silent, isAiContributed) ==
    LET r == AddFileMatchLoop(t, F, raw, 1, <<>>, <<>>, isAiContributed)
        elements == r.added \o r.updated
    IN  IF r.t.err THEN r
        ELSE IF ~silent /\ Len(elements) > 0
        THEN [r EXCEPT !.t = Fire(r.t, F, ChangeEvent(elements, Len(r.added) > 0, FALSE))]
        ELSE r

(***************************************************************************)
(* The inputs.                                                             *)
(***************************************************************************)
W == 1      \* the workspace root folder
N == 2      \* the no-root ("other files") folder

RootResource == <<"p">>

RawFileMatch(resource, results) ==
    [resource |-> resource, results |-> results, notebook |-> FALSE, cellResults |-> <<>>]

RawNotebookFileMatch(resource, results, cellResults) ==
    [resource |-> resource, results |-> results, notebook |-> TRUE, cellResults |-> cellResults]

RawCell(index, cell, contentResults, webviewResults) ==
    [index |-> index, cell |-> cell,
     contentResults |-> contentResults, webviewResults |-> webviewResults]

\* Raw file matches under the workspace root, one, two and three levels
\* deep, and one outside of it.
WorkspaceRawFiles ==
    {RawFileMatch(<<"p", "a">>, {1, 2}),
     RawFileMatch(<<"p", "s", "a">>, {1}),
     RawFileMatch(<<"p", "s", "t", "a">>, {1})}

OtherRawFiles == {RawFileMatch(<<"x", "a">>, {1})}

\* The raw batches of at most n entries over a set of raw file matches.
Batches(rawFiles, n) == UNION {[1..k -> rawFiles] : k \in 0..n}

(***************************************************************************)
(* The state machine.                                                      *)
(***************************************************************************)
NoPending == [op |-> "none", folder |-> Nil, files |-> <<>>]
NoEcho == [folder |-> Nil, raw |-> <<>>, silent |-> FALSE, ai |-> FALSE]
NotPristine == [pristine |-> FALSE, paths |-> {}]

\* The notebook fields of a NotebookCompatibleFileMatch after construction:
\*   widget    _notebookEditorWidget (Nil for null)
\*   listener  the widget whose text model _editorWidgetListener listens to
\*             (Nil for null)
\*   attached  per widget, the listeners of this file that are installed on
\*             its text model and not disposed
\*   timers    the timeouts of _notebookUpdateScheduler that are pending
\*   lastId    _lastEditorWidgetIdForUpdate (Nil for undefined)
\*   finds     the find() calls awaited by updateMatchesForEditorWidget,
\*             each with the widget it searches
\*   fired     the _onChange.fire calls the file made in the last operation
\*   burst     the qualifying content changes since the scheduler was idle
\*   coalesced the burst the last timeout ended
\*   former    the widget the last unbind took away, until the next bind
Widgets == {1, 2}       \* the notebook editor widgets, each its own getId()

NoBinding ==
    [widget |-> Nil, listener |-> Nil, attached |-> [w \in Widgets |-> 0], timers |-> 0,
     lastId |-> Nil, finds |-> <<>>, fired |-> 0, burst |-> 0, coalesced |-> 0,
     former |-> Nil]

Last(op, folder, fs, child, outcome) ==
    [op |-> op, folder |-> folder, files |-> fs, child |-> child, outcome |-> outcome]

Outcome(t) == IF t.err THEN "threw" ELSE "returned"

T0 == [folders |-> folders, files |-> files, log |-> <<>>, err |-> FALSE]

Commit(t) ==
    /\ folders' = t.folders
    /\ files' = t.files
    /\ log' = t.log
    /\ thrown' = t.err

AllFolders == 1..Len(folders)
AllFiles == 1..Len(files)

\* The folders an observer of the workspace root's tree can get hold of: the
\* root and what folderMatchesIterator() yields below it.
RECURSIVE ReachFrom(_, _)
ReachFrom(Fs, n) ==
    IF n = 0 THEN Fs
    ELSE ReachFrom(Fs \cup UNION {SeqToSet(MapValues(folders[F].folderMatches)) : F \in Fs},
                   n - 1)

Visible == ReachFrom({W}, Len(folders))

\* The heading has constructed a workspace root, over AI results or not,
\* and the no-root folder.
InitWith(ai) ==
    /\ folders = <<NewFolder("root", RootResource, RootResource, Heading, ai),
                   NewFolder("noroot", NullResource, <<"otherFiles">>, Heading, FALSE)>>
    /\ files = <<>>
    /\ log = <<>>
    /\ thrown = FALSE
    /\ pending = NoPending
    /\ last = Last("init", Nil, <<>>, Nil, "returned")
    /\ echo = NoEcho
    /\ hist = [pristine |-> TRUE, paths |-> {}]
    /\ nb = NoBinding

Init == \E ai \in BOOLEAN : InitWith(ai)

\* folder.addFileMatch(raw, silent, searchInstanceID, isAiContributed)
AddFileMatchStep(op, F, raw, silent, isAiContributed) ==
    LET r == AddFileMatch(T0, F, raw, silent, isAiContributed)
    IN  /\ Len(r.t.files) <= MaxFiles
        /\ Len(r.t.folders) <= 2 + MaxFolders
        /\ Commit(r.t)
        /\ last' = Last(op, F, r.added \o r.updated, Nil, Outcome(r.t))
        /\ hist' = IF hist.pristine /\ ~r.t.err
                   THEN [hist EXCEPT !.paths =
                            IF F = W THEN @ \cup {raw[i].resource : i \in 1..Len(raw)} ELSE @]
                   ELSE NotPristine
        /\ UNCHANGED <<pending, nb>>

\* A search result arrives at the workspace root, one raw file match at a
\* time, AI-contributed or not.
AddFileMatchCall ==
    /\ pending = NoPending
    /\ \E rawFileMatch \in WorkspaceRawFiles \cup OtherRawFiles, isAiContributed \in BOOLEAN :
         AddFileMatchStep("addFileMatch", W, <<rawFileMatch>>, FALSE, isAiContributed)
    /\ echo' = NoEcho

\* fileMatch.remove(match) on a file match with text matches only: the
\* match leaves _textMatches and the file fires onChange({didRemove: true}).
\* This is also what an edit of the file's text model ends in.
FileRemoveMatch ==
    \E f \in AllFiles :
      /\ ~files[f].disposed
      /\ files[f].kind = "plain"
      /\ \E k \in DOMAIN files[f].text :
           LET t1 == [T0 EXCEPT !.files[f].text = [x \in (DOMAIN @) \ {k} |-> @[x]]]
               t2 == FileFire(t1, f, TRUE)
           IN  /\ Commit(t2)
               /\ last' = Last("fileRemove", files[f].parent, <<f>>, Nil, Outcome(t2))
      /\ echo' = NoEcho
      /\ hist' = NotPristine
      /\ UNCHANGED nb
      /\ UNCHANGED pending

\* folder.remove(matches) with one file match, two file matches or one
\* folder match
RemoveCall ==
    /\ pending = NoPending
    /\ \E F \in Visible :
        \E e \in [files : {<<f>> : f \in {g \in AllFiles : ~files[g].disposed}}, folders : {<<>>}]
             \cup [files : {<<f, g>> : f, g \in {h \in AllFiles : ~files[h].disposed}}
                                \ {<<f, f>> : f \in AllFiles},
                   folders : {<<>>}]
             \cup [files : {<<>>},
                   folders : {<<C>> : C \in SeqToSet(MapValues(folders[F].folderMatches))}] :
          LET allMatches == GetFileMatches(T0, e.files, e.folders)
              t1 == DoRemoveFile(T0, F, allMatches, TRUE, TRUE, FALSE)
          IN  /\ Commit(t1)
              /\ last' = Last("remove", F, allMatches, Nil, Outcome(t1))
    /\ echo' = NoEcho
    /\ hist' = NotPristine
    /\ UNCHANGED nb
    /\ UNCHANGED pending

\* folder.clear()
ClearCall ==
    /\ pending = NoPending
    /\ \E F \in Visible :
         LET changed == AllDownstreamFileMatches(T0, F)
             t1 == Fire(DisposeMatches(T0, F), F, ChangeEvent(changed, FALSE, TRUE))
         IN  /\ Commit(t1)
             /\ last' = Last("clear", F, changed, Nil, Outcome(t1))
    /\ echo' = NoEcho
    /\ hist' = NotPristine
    /\ UNCHANGED nb
    /\ UNCHANGED pending

\* folder.replace(match), up to the call of the replace service
ReplaceCall ==
    /\ pending = NoPending
    /\ \E F \in Visible, f \in AllFiles :
         /\ ~files[f].disposed
         /\ GetDownstreamFileMatch(T0, F, files[f].resource) = f
         /\ pending' = [op |-> "replace", folder |-> F, files |-> <<f>>]
         /\ last' = Last("replace", F, <<f>>, Nil, "pending")
    /\ log' = <<>>
    /\ thrown' = FALSE
    /\ echo' = NoEcho
    /\ hist' = NotPristine
    /\ UNCHANGED nb
    /\ UNCHANGED <<folders, files>>

\* folder.replaceAll(): matches(), then batchReplace up to its await
ReplaceAllCall ==
    /\ pending = NoPending
    /\ \E F \in Visible :
         LET m == Matches(T0, F)
             allMatches == GetFileMatches(T0, m.files, m.folders)
         IN  /\ pending' = [op |-> "replaceAll", folder |-> F, files |-> allMatches]
             /\ last' = Last("replaceAll", F, allMatches, Nil, "pending")
    /\ log' = <<>>
    /\ thrown' = FALSE
    /\ echo' = NoEcho
    /\ hist' = NotPristine
    /\ UNCHANGED nb
    /\ UNCHANGED <<folders, files>>

\* A faulty continuation that removes the files without keepReadonly.
ReplaceResolveDropsReadonly ==
    /\ pending # NoPending
    /\ LET t1 == DoRemoveFile(T0, pending.folder, pending.files, TRUE, TRUE, FALSE)
       IN  /\ Commit(t1)
           /\ last' = Last(pending.op, pending.folder, pending.files, Nil,
                           IF t1.err THEN "threw" ELSE "resolved")
    /\ pending' = NoPending
    /\ echo' = NoEcho
    /\ hist' = NotPristine
    /\ UNCHANGED nb

\* The replace service succeeds: the continuation of replace / batchReplace
\* runs doRemoveFile(files, true, true, true).
ReplaceResolve ==
    /\ pending # NoPending
    /\ LET t1 == DoRemoveFile(T0, pending.folder, pending.files, TRUE, TRUE, TRUE)
       IN  /\ Commit(t1)
           /\ last' = Last(pending.op, pending.folder, pending.files, Nil,
                           IF t1.err THEN "threw" ELSE "resolved")
    /\ pending' = NoPending
    /\ echo' = NoEcho
    /\ hist' = NotPristine
    /\ UNCHANGED nb

\* A faulty replace that removes the files before it learns that the
\* replace service failed.
ReplaceRejectAfterRemoval ==
    /\ pending # NoPending
    /\ LET t1 == DoRemoveFile(T0, pending.folder, pending.files, TRUE, TRUE, TRUE)
       IN  /\ folders' = t1.folders
           /\ files' = t1.files
           /\ log' = t1.log
    /\ last' = Last(pending.op, pending.folder, pending.files, Nil, "rejected")
    /\ pending' = NoPending
    /\ thrown' = TRUE
    /\ echo' = NoEcho
    /\ hist' = NotPristine
    /\ UNCHANGED nb

\* The replace service fails: the promise of replace / replaceAll rejects
\* and the continuation never runs.
ReplaceReject ==
    /\ pending # NoPending
    /\ last' = Last(pending.op, pending.folder, pending.files, Nil, "rejected")
    /\ pending' = NoPending
    /\ log' = <<>>
    /\ thrown' = TRUE
    /\ echo' = NoEcho
    /\ hist' = NotPristine
    /\ UNCHANGED nb
    /\ UNCHANGED <<folders, files>>

\* The heading sets replacingAll on its top-level folders.
SetReplacingAll ==
    \E b \in BOOLEAN :
      /\ folders[W].replacingAll # b
      /\ folders' = [folders EXCEPT ![W].replacingAll = b]
      /\ last' = Last("replacingAll", W, <<>>, Nil, "returned")
      /\ log' = <<>>
      /\ thrown' = FALSE
      /\ echo' = NoEcho
      /\ hist' = NotPristine
      /\ UNCHANGED nb
      /\ UNCHANGED <<files, pending>>

Next ==
    \/ AddFileMatchCall
    \/ FileRemoveMatch
    \/ RemoveCall
    \/ ClearCall
    \/ ReplaceCall
    \/ ReplaceAllCall
    \/ ReplaceResolve
    \/ ReplaceReject
    \/ SetReplacingAll

Spec == InitWith(FALSE) /\ [][Next]_vars

(***************************************************************************)
(* Properties of the tree of the workspace root.                           *)
(***************************************************************************)
\* Whether file f is among allDownstreamFileMatches() of folder F.
InTree(F, f) == f \in SeqToSet(AllDownstreamFileMatches(T0, F))

\* The folders from F up its parent links.
RECURSIVE ChainFrom(_, _)
ChainFrom(F, n) ==
    IF F = Heading \/ n = 0 THEN {} ELSE {F} \cup ChainFrom(folders[F].parent, n - 1)

\* The number of _onChange.fire calls the last operation made on folder F.
EventsOn(F) == Cardinality({i \in DOMAIN log : log[i].on = F})

\* C6: when the last match of a file has been removed and the file has
\* notified its parent, the file is no longer in the parent's file map, and
\* every intermediate folder that this leaves without files and child
\* folders is disposed and out of its parent's child-folder map.
EmptiedFileAndFoldersPruned ==
    [][(last'.op = "fileRemove" /\ FileCount(files'[last'.files[1]]) = 0) =>
          LET f == last'.files[1]
              P == files'[f].parent
          IN  /\ MapGet(folders'[P].fileMatches, files'[f].resource) # f
              /\ \A C \in AllFolders :
                   (folders[C].kind = "mid" /\ ~IsEmpty(T0, C) /\ IsEmpty(T0', C)) =>
                       /\ folders'[C].disposed
                       /\ MapGet(folders'[folders'[C].parent].folderMatches,
                                 folders'[C].resource) # C]_vars

\* The last match of a file two folders below the root has been removed:
\* both folders were live, became empty and were pruned, each forwarding
\* the event.
EmptiedFileTwoLevelsDeep ==
    /\ last.op = "fileRemove"
    /\ FileCount(files[last.files[1]]) = 0
    /\ LET P == files[last.files[1]].parent
       IN  /\ folders[P].kind = "mid"
           /\ folders[folders[P].parent].kind = "mid"
           /\ folders[P].disposed
           /\ folders[folders[P].parent].disposed
    /\ Len(log) = 3
    /\ \A i \in 1..3 : log[i].delivered

\* C7: as long as files have only been added to the workspace root through
\* addFileMatch, recursiveFileCount() of the root is the number of distinct
\* paths added, at whatever depth they lie.
RecursiveFileCountIsPathsAdded ==
    hist.pristine => RecursiveFileCount(T0, W) = Cardinality(hist.paths)

\* Two files have been added, one directly under the root and one under
\* nested folders.
TwoFilesAtDifferentDepths ==
    /\ hist.pristine
    /\ Cardinality(hist.paths) = 2
    /\ \E p \in hist.paths : Len(p) = 2
    /\ \E p \in hist.paths : Len(p) > 2
    /\ RecursiveFileCount(T0, W) = 2

\* C3: after replaceAll() on a folder has resolved, a file of the batch is
\* still in the folder's tree exactly if it reports read-only matches,
\* whether it was a direct child or lay under a child folder.
ReplaceAllKeepsExactlyReadonlyFiles ==
    (last.op = "replaceAll" /\ last.outcome = "resolved") =>
        \A i \in 1..Len(last.files) :
            InTree(last.folder, last.files[i]) <=> HasReadonlyMatches(files[last.files[i]])

\* C4 (as stated): after replace(fileMatch) on a folder has resolved, the
\* file is nowhere in the folder's tree, read-only matches or not.
ReplaceAlwaysRemovesFile ==
    (last.op = "replace" /\ last.outcome = "resolved") =>
        ~InTree(last.folder, last.files[1])

\* C4 (amended): after replace(fileMatch) on a folder has resolved, the file
\* is still in the folder's tree exactly if it is a direct child of the
\* folder and reports read-only matches.
ReplaceKeepsDirectReadonlyFile ==
    (last.op = "replace" /\ last.outcome = "resolved") =>
        LET f == last.files[1]
        IN  InTree(last.folder, f) <=>
                (files[f].parent = last.folder /\ HasReadonlyMatches(files[f]))

\* replace() of a direct child with a read-only match has resolved and the
\* file is still in the folder's file map, not disposed.
ReplacedReadonlyFileStays ==
    /\ last.op = "replace"
    /\ last.outcome = "resolved"
    /\ LET f == last.files[1]
       IN  /\ files[f].parent = last.folder
           /\ HasReadonlyMatches(files[f])
           /\ MapGet(folders[last.folder].fileMatches, files[f].resource) = f
           /\ ~files[f].disposed

\* C5: a step in which replace() / replaceAll() is rejected because the
\* replace service failed reports the failure and changes nothing in the
\* heap of folders and files: no map, no disposal state.
RejectedReplaceLeavesTree ==
    [][last'.outcome = "rejected" => (thrown' /\ folders' = folders /\ files' = files)]_vars

\* replaceAll() of a folder with two files has been rejected and both files
\* are still in the tree.
RejectedReplaceAllOfTwoFiles ==
    /\ last.op = "replaceAll"
    /\ last.outcome = "rejected"
    /\ thrown
    /\ Len(last.files) = 2
    /\ \A i \in 1..2 : InTree(last.folder, last.files[i]) /\ ~files[last.files[i]].disposed

\* C9: a replaceAll() that resolved has fired exactly one change event on
\* the folder it was called on.
ReplaceAllFiresOneEvent ==
    (last.op = "replaceAll" /\ last.outcome = "resolved") => EventsOn(last.folder) = 1

(***************************************************************************)
(* Folder insertion.  doAddFolder and createIntermediateFolderMatch are    *)
(* public: here they are called with any folder and any path, on a tree    *)
(* that addFileMatch builds.                                               *)
(***************************************************************************)
InsertResources == {<<"p">>, <<"p", "s">>, <<"p", "s", "t">>, <<"x">>}

\* target.doAddFolder(folderMatch)
DoAddFolderCall ==
    /\ \E T \in AllFolders, F \in AllFolders :
         LET t1 == DoAddFolder(T0, T, F)
         IN  /\ Commit(t1)
             /\ last' = Last("doAddFolder", T, <<>>, F, Outcome(t1))
    /\ echo' = NoEcho
    /\ hist' = NotPristine
    /\ UNCHANGED nb
    /\ UNCHANGED pending

\* parent.createIntermediateFolderMatch(resource, id, index, query, root)
CreateIntermediateFolderMatchCall ==
    /\ Len(folders) < 2 + MaxFolders
    /\ \E P \in AllFolders, resource \in InsertResources :
         LET t1 == CreateIntermediateFolderMatch(T0, P, resource, resource)
         IN  /\ Commit(t1)
             /\ last' = Last("createIntermediateFolderMatch", P, <<>>, Len(folders) + 1,
                             Outcome(t1))
    /\ echo' = NoEcho
    /\ hist' = NotPristine
    /\ UNCHANGED nb
    /\ UNCHANGED pending

\* A file arrives at the workspace root and gets its folders.
InsertAddFileMatch ==
    /\ files = <<>>
    /\ AddFileMatchStep("addFileMatch", W,
                        <<RawFileMatch(<<"p", "s", "t", "a">>, {1})>>, TRUE, FALSE)
    /\ echo' = NoEcho

NextInsert ==
    \/ InsertAddFileMatch
    \/ DoAddFolderCall
    \/ CreateIntermediateFolderMatchCall

SpecInsert == InitWith(FALSE) /\ [][NextInsert]_vars

\* Whether path c lies strictly below path p.
StrictDescendant(p, c) == Len(c) > Len(p) /\ SubSeq(c, 1, Len(p)) = p

\* The folders reachable from F through n levels of child-folder maps.
RECURSIVE Below(_, _)
Below(Fs, n) ==
    IF n = 0 THEN {}
    ELSE LET kids == UNION {SeqToSet(MapValues(folders[F].folderMatches)) : F \in Fs}
         IN  kids \cup Below(kids, n - 1)

\* C1: a step of doAddFolder / createIntermediateFolderMatch on a folder
\* that has a path, with a child whose path is not strictly below that path,
\* throws and leaves the folder's child-folder map and lookup index as they
\* were.
BadPathInsertionThrows ==
    [][(/\ last'.op \in {"doAddFolder", "createIntermediateFolderMatch"}
        /\ folders[last'.folder].resource # NullResource
        /\ ~StrictDescendant(folders[last'.folder].resource,
                             folders'[last'.child].resource))
       => /\ thrown'
          /\ folders'[last'.folder].folderMatches = folders[last'.folder].folderMatches
          /\ folders'[last'.folder].folderMatchesMap = folders[last'.folder].folderMatchesMap
      ]_vars

\* createIntermediateFolderMatch was called on the workspace root, which
\* has a child folder, with a path outside of the root: it threw, and the
\* child folder is still the only one.
CreateOutsideOfRootThrew ==
    /\ last.op = "createIntermediateFolderMatch"
    /\ last.outcome = "threw"
    /\ last.folder = W
    /\ folders[last.child].resource = <<"x">>
    /\ Len(folders[W].folderMatches) = 1
    /\ Len(folders[W].folderMatchesMap) = 1

\* C2: a step of doAddFolder on a target with the target itself or a folder
\* on the target's parent chain throws and leaves the target's maps as they
\* were; and in every state no folder lies below itself, neither through the
\* child-folder maps nor through the parent links.
NoFolderIsItsOwnAncestor ==
    [][/\ (/\ last'.op = "doAddFolder"
           /\ last'.child \in ChainFrom(last'.folder, Len(folders)))
          => /\ thrown'
             /\ folders'[last'.folder].folderMatches = folders[last'.folder].folderMatches
             /\ folders'[last'.folder].folderMatchesMap
                    = folders[last'.folder].folderMatchesMap
       /\ \A F \in 1..Len(folders') : F \notin (Below({F}, Len(folders) + 1))'
       /\ \A F \in 1..Len(folders') :
              F \notin (ChainFrom(folders[F].parent, Len(folders)))'
      ]_vars

\* doAddFolder was called on the no-root folder with the no-root folder
\* itself: it threw and the folder has no child folder.
InsertedSelfIntoNoRoot ==
    /\ last.op = "doAddFolder"
    /\ last.outcome = "threw"
    /\ last.folder = N
    /\ last.child = N
    /\ folders[N].folderMatches = <<>>

(***************************************************************************)
(* Ingestion.  addFileMatch is called with batches of raw file matches,    *)
(* plain and cell-structured, and called again with the batch it was just  *)
(* given.  The folders of this source create FileMatchImpl objects only; a *)
(* NotebookCompatibleFileMatch gets into the tree by doAddFile.            *)
(***************************************************************************)
NotebookRawFile ==
    RawNotebookFileMatch(<<"p", "n">>, {1},
        <<RawCell(0, Undefined, {1}, {<<1, 1>>}), RawCell(1, <<"view", 2>>, {2}, {})>>)

IngestRawFiles ==
    {RawFileMatch(<<"p", "s", "a">>, {1, 2}),
     RawFileMatch(<<"x", "a">>, {1}),
     RawNotebookFileMatch(<<"p", "n">>, {2},
         <<RawCell(0, Undefined, {2}, {<<0, 1>>}), RawCell(1, Undefined, {1}, {})>>)}

\* NotebookCompatibleFileMatch.createMatches with no text model and no
\* notebook editor open for the file: the raw results and the raw cell
\* results become the file's matches.
NotebookCreateMatches(f, rawFileMatch, isAiContributed) ==
    AddCellMatches([f EXCEPT !.text = AddTextResults(@, rawFileMatch.results, isAiContributed)],
                   rawFileMatch.cellResults, 1)

\* A NotebookCompatibleFileMatch is constructed for the root, its matches
\* are created, and it is given to the root with doAddFile.
AdoptNotebookFile ==
    /\ Len(files) < MaxFiles
    /\ GetDownstreamFileMatch(T0, W, NotebookRawFile.resource) = Nil
    /\ LET f == Len(files) + 1
           fileMatch == NotebookCreateMatches(NewFile("notebook", NotebookRawFile.resource, W),
                                              NotebookRawFile, folders[W].ai)
           t1 == DoAddFile([T0 EXCEPT !.files = Append(@, fileMatch)], W, f)
       IN  /\ Commit(t1)
           /\ last' = Last("doAddFile", W, <<f>>, Nil, Outcome(t1))
    /\ echo' = NoEcho
    /\ hist' = NotPristine
    /\ UNCHANGED nb
    /\ UNCHANGED pending

\* The addFileMatch calls made on the tree: a batch given to a folder of the
\* tree, and the batch of the call before given again to the same folder.
IngestCalls ==
    [op : {"addFileMatch"}, folder : Visible, raw : Batches(IngestRawFiles, MaxBatch),
     silent : BOOLEAN, ai : {FALSE}]
        \cup (IF echo.folder = Nil THEN {}
              ELSE [op : {"repeat"}, folder : {echo.folder}, raw : {echo.raw},
                    silent : {echo.silent}, ai : BOOLEAN])

IngestCall ==
    \E c \in IngestCalls :
      /\ AddFileMatchStep(c.op, c.folder, c.raw, c.silent, c.ai)
      /\ echo' = IF c.op = "repeat" THEN NoEcho
                 ELSE [folder |-> c.folder, raw |-> c.raw, silent |-> c.silent,
                       ai |-> c.ai]

NextIngest ==
    \/ AdoptNotebookFile
    \/ IngestCall

SpecIngest == InitWith(TRUE) /\ [][NextIngest]_vars

\* What the tree shows: each folder's files and child folders, and the ids
\* of each file's text matches and of each cell's content and webview
\* matches.
TreeView ==
    [folderView |->
        [F \in AllFolders |-> [fileMatches |-> folders[F].fileMatches,
                               folderMatches |-> folders[F].folderMatches]],
     fileView |->
        [f \in AllFiles |->
            [text |-> DOMAIN files[f].text,
             cells |-> [i \in 1..Len(files[f].cells) |->
                          [id |-> files[f].cells[i].k,
                           content |-> DOMAIN files[f].cells[i].v.content,
                           webview |-> DOMAIN files[f].cells[i].v.webview]]]]]

\* C8: a step that calls addFileMatch again with the batch of the call
\* before leaves the folders, the files and every file's set of matches as
\* the first call left them.
RepeatedBatchChangesNothing ==
    [][last'.op = "repeat" => TreeView' = TreeView]_vars

\* A batch with a plain file and cell results for the notebook file has
\* been given twice: the notebook file has the two cell matches it was made
\* with and the one the batch added, the first with the merged matches, and
\* the plain file is there.
RepeatedMixedBatch ==
    /\ last.op = "repeat"
    /\ ~thrown
    /\ Len(last.files) = 2
    /\ \E i, j \in 1..2 :
         /\ files[last.files[i]].kind = "plain"
         /\ files[last.files[j]].kind = "notebook"
         /\ Len(files[last.files[j]].cells) = 3
         /\ CellMatchCount(files[last.files[j]].cells[1].v) = 4

\* The files an addFileMatch step created, and the files it found
\* downstream of folder F for the paths of its batch.
CreatedBy(raw) == {f \in 1..Len(files') : f > Len(files)}

MergedBy(F, raw) ==
    {GetDownstreamFileMatch(T0, F, raw[i].resource) : i \in 1..Len(raw)} \ {Nil}

\* The events the step fired on folder F.
FiredOn(F) == {i \in DOMAIN log' : log'[i].on = F}

MaxListeners == 3   \* listeners of the file installed on text models at one time
MaxBurst == 2       \* content changes counted between two idle times of the scheduler
MaxFinds == 1       \* find() calls awaited at one time

NotebookFile == 1

\* RunOnceScheduler.cancel: the pending timeout, if any, is cleared.
SchedulerCancel(b) == [b EXCEPT !.timers = 0]

\* A faulty scheduler that adds a timeout to the ones pending.
ScheduleWithoutCancel(b) == [b EXCEPT !.timers = @ + 1]

\* RunOnceScheduler.schedule: cancel(), then one timeout is set.
SchedulerSchedule(b) == [SchedulerCancel(b) EXCEPT !.timers = @ + 1]

\* NotebookCompatibleFileMatch.bindNotebookEditorWidget: nothing for the
\* widget already bound; else the widget is taken and a listener is installed
\* on its text model, if it has one.  The listener held before is overwritten,
\* not disposed.
BindNotebookEditorWidget(b, widget, hasTextModel) ==
    IF b.widget = widget THEN b
    ELSE [b EXCEPT !.widget = widget,
                   !.listener = IF hasTextModel THEN widget ELSE Nil,
                   !.attached[widget] = IF hasTextModel THEN @ + 1 ELSE @]

\* NotebookCompatibleFileMatch.unbindNotebookEditorWidget(widget?), Nil for
\* no argument: nothing for a widget that is not the bound one; else, if a
\* widget is bound, the scheduler is cancelled and the listener held is
\* disposed; the widget reference is cleared.  A disposed listener is never
\* looked at again before bind overwrites it: it is kept as Nil.
UnbindNotebookEditorWidget(b, widget) ==
    IF widget # Nil /\ b.widget # widget THEN b
    ELSE LET b1 == IF b.widget # Nil
                   THEN LET c == SchedulerCancel(b)
                        IN  IF c.listener # Nil
                            THEN [c EXCEPT !.attached[c.listener] = @ - 1, !.listener = Nil]
                            ELSE c
                   ELSE b
         IN  [b1 EXCEPT !.widget = Nil]

\* The onDidChangeContent listeners of the file on a widget's text model
\* run one after the other: each schedules if some raw event is a cell
\* content change or a model change.
RECURSIVE RunListeners(_, _, _)
RunListeners(b, k, qualifying) ==
    IF k = 0 \/ ~qualifying THEN b
    ELSE RunListeners(SchedulerSchedule(b), k - 1, qualifying)

\* updateMatchesForEditorWidget up to its await: nothing without a widget;
\* else _textMatches is replaced by an empty map and find() is called on the
\* widget.  The awaited call remembers whether the file had text matches.
UpdateMatchesForEditorWidgetStart(t, b, f) ==
    IF b.widget = Nil THEN [t |-> t, b |-> b]
    ELSE [t |-> [t EXCEPT !.files[f].text = EmptyFn],
          b |-> [b EXCEPT !.finds = Append(@, [widget |-> b.widget,
                                               hadText |-> t.files[f].text # EmptyFn])]]

\* The forEach of updateNotebookMatches over the cells find() returned: the
\* cell match stored under the cell's id is emptied and filled again; if
\* there is none, the cell match the raw results left under the cell's index
\* is given the cell and used; else a cell match is made.  The cell match
\* used is the same object in the old map and under every key it is stored
\* under, its old raw key too where the map was not cleared.
RECURSIVE NotebookMatchLoop(_, _, _, _)
NotebookMatchLoop(cells, oldCellMatches, matches, i) ==
    IF i > Len(matches) THEN cells
    ELSE LET match == matches[i]
             rawKey == <<"rawCell", match.index>>
             direct == MapHas(cells, match.cell)
             reused == ~direct /\ MapHas(oldCellMatches, rawKey)
             base == IF direct THEN MapGet(cells, match.cell)
                     ELSE IF reused
                          THEN [MapGet(oldCellMatches, rawKey) EXCEPT !.cell = match.cell]
                          ELSE [cellIndex |-> match.index, cell |-> match.cell,
                                content |-> EmptyFn, webview |-> EmptyFn, fresh |-> TRUE]
             cell == AddWebviewMatches(
                         AddContentMatches([base EXCEPT !.content = EmptyFn,
                                                        !.webview = EmptyFn],
                                           match.contentMatches),
                         match.webviewMatches)
             baseId == IF reused THEN CellId(MapGet(oldCellMatches, rawKey)) ELSE match.cell
             c1 == MapSet(ReplaceCellMatch(cells, baseId, cell), CellId(cell), cell)
             old == ReplaceCellMatch(oldCellMatches, baseId, cell)
         IN  NotebookMatchLoop(c1, old, matches, i + 1)

\* NotebookCompatibleFileMatch.updateNotebookMatches: nothing without a
\* widget; the cell matches are cleared only if the widget is not the one of
\* the update before; then the loop, and _onChange.fire, which a disposed
\* emitter ignores.
UpdateNotebookMatches(t, b, f, matches) ==
    IF b.widget = Nil THEN [t |-> t, b |-> b]
    ELSE LET held == t.files[f].cells
             oldCellMatches == [i \in 1..Len(held) |->
                                  [k |-> held[i].k, v |-> [held[i].v EXCEPT !.fresh = FALSE]]]
             start == IF b.widget # b.lastId THEN <<>> ELSE oldCellMatches
         IN  [t |-> [t EXCEPT !.files[f].cells =
                        NotebookMatchLoop(start, oldCellMatches, matches, 1)],
              b |-> [b EXCEPT !.lastId = b.widget,
                              !.fired = IF t.files[f].disposed THEN @ ELSE @ + 1]]

\* What find() can return: cells of the widget with their index, content
\* matches (keys) and webview matches (<<webviewIndex, key>>).
CellFindMatch(cell, index, contentMatches, webviewMatches) ==
    [cell |-> cell, index |-> index,
     contentMatches |-> contentMatches, webviewMatches |-> webviewMatches]

FindResults ==
    {<<>>,
     <<CellFindMatch(<<"view", 1>>, 0, {1}, {})>>,
     <<CellFindMatch(<<"view", 1>>, 0, {2}, {}),
       CellFindMatch(<<"view", 2>>, 1, {1}, {<<1, 1>>})>>}

\* What every step of the binding leaves alone or resets; `raw` is what the
\* step was given by the widget, if anything.
NotebookFrameWith(op, t, b, raw) ==
    /\ folders' = t.folders
    /\ files' = t.files
    /\ nb' = IF b.timers = 0 THEN [b EXCEPT !.burst = 0] ELSE b
    /\ last' = Last(op, Nil, <<NotebookFile>>, Nil, "returned")
    /\ log' = <<>>
    /\ thrown' = FALSE
    /\ echo' = [NoEcho EXCEPT !.raw = raw]
    /\ hist' = NotPristine
    /\ UNCHANGED pending

NotebookFrame(op, t, b) == NotebookFrameWith(op, t, b, <<>>)

Adopted == Len(files) >= NotebookFile /\ files[NotebookFile].kind = "notebook"

B0 == [nb EXCEPT !.fired = 0]

\* fileMatch.bindNotebookEditorWidget(widget)
NotebookBind ==
    /\ Adopted
    /\ nb.attached[1] + nb.attached[2] < MaxListeners
    /\ \E widget \in Widgets, hasTextModel \in BOOLEAN :
         LET b == BindNotebookEditorWidget(B0, widget, hasTextModel)
         IN  NotebookFrame("bind", T0,
                           IF nb.widget = widget THEN b ELSE [b EXCEPT !.former = Nil])

\* folder.bindNotebookEditorWidget(editor, resource) on the workspace root:
\* the notebook file in the root's file map is bound and rescanned at once;
\* for any other resource nothing happens.
FolderBindNotebookEditorWidget ==
    /\ Adopted
    /\ nb.attached[1] + nb.attached[2] < MaxListeners
    /\ Len(nb.finds) < MaxFinds
    /\ MapGet(folders[W].fileMatches, files[NotebookFile].resource) = NotebookFile
    /\ \E widget \in Widgets :
         LET b == BindNotebookEditorWidget(B0, widget, TRUE)
             r == UpdateMatchesForEditorWidgetStart(T0,
                      IF nb.widget = widget THEN b ELSE [b EXCEPT !.former = Nil],
                      NotebookFile)
         IN  NotebookFrame("folderBind", r.t, r.b)

\* fileMatch.unbindNotebookEditorWidget(widget?)
NotebookUnbind ==
    /\ Adopted
    /\ \E widget \in Widgets \cup {Nil} :
         LET b == UnbindNotebookEditorWidget(B0, widget)
         IN  NotebookFrame("unbind", T0,
                           IF nb.widget # Nil /\ b.widget = Nil
                           THEN [b EXCEPT !.former = nb.widget] ELSE b)

\* The text model of a widget changes: its listeners run.
ContentChange ==
    /\ Adopted
    /\ nb.burst < MaxBurst
    /\ \E widget \in Widgets, qualifying \in BOOLEAN :
         /\ nb.attached[widget] > 0
         /\ LET b == RunListeners(B0, nb.attached[widget], qualifying)
            IN  NotebookFrame("change", T0,
                              [b EXCEPT !.burst = IF qualifying THEN @ + 1 ELSE @])

\* A timeout of the scheduler fires: the runner, updateMatchesForEditorWidget,
\* runs up to its await.
TimerFire ==
    /\ Adopted
    /\ nb.timers > 0
    /\ Len(nb.finds) < MaxFinds
    /\ LET r == UpdateMatchesForEditorWidgetStart(T0,
                    [B0 EXCEPT !.timers = @ - 1, !.coalesced = nb.burst, !.burst = 0],
                    NotebookFile)
       IN  NotebookFrame("timer", r.t, r.b)

\* The find() awaited first resolves: updateNotebookMatches(allMatches, true).
FindReturn ==
    /\ Adopted
    /\ nb.finds # <<>>
    /\ \E allMatches \in FindResults :
         LET r == UpdateNotebookMatches(T0, [B0 EXCEPT !.finds = Tail(@)],
                                        NotebookFile, allMatches)
         IN  NotebookFrameWith("find", r.t, r.b, allMatches)

\* fileMatch.dispose(): unbindNotebookEditorWidget(), then super.dispose().
NotebookDispose ==
    /\ Adopted
    /\ LET b == UnbindNotebookEditorWidget(B0, Nil)
       IN  NotebookFrame("dispose", FileDispose(T0, NotebookFile),
                         IF nb.widget # Nil THEN [b EXCEPT !.former = nb.widget] ELSE b)

NextNotebook ==
    \/ AdoptNotebookFile
    \/ NotebookBind
    \/ FolderBindNotebookEditorWidget
    \/ NotebookUnbind
    \/ ContentChange
    \/ TimerFire
    \/ FindReturn
    \/ NotebookDispose

SpecNotebook == InitWith(FALSE) /\ [][NextNotebook]_vars

\* C11: the scheduler never holds more than one timeout; a qualifying
\* content change leaves exactly one timeout pending and starts no rescan;
\* and a timeout that fires leaves none pending and starts exactly one rescan
\* if the file is bound, however many changes came before it.
ChangesCoalesceIntoOneRescan ==
    [][/\ nb'.timers <= 1
       /\ (last'.op = "change" /\ nb'.burst # nb.burst) =>
              (nb'.timers = 1 /\ nb'.finds = nb.finds)
       /\ (last'.op = "timer") =>
              /\ nb'.timers = 0
              /\ Len(nb'.finds) = Len(nb.finds) + (IF nb.widget # Nil THEN 1 ELSE 0)
      ]_vars

\* Two qualifying changes came in while the file was bound, then the
\* timeout fired: one find() is awaited and no timeout is pending.
TwoChangesOneRescan ==
    /\ last.op = "timer"
    /\ nb.coalesced = 2
    /\ nb.widget # Nil
    /\ Len(nb.finds) = 1
    /\ nb.timers = 0

\* C12: once the file has been unbound from a widget, it has no widget, no
\* timeout is pending, and no listener of the file is left on the text model
\* of the former widget, so that its content changes arm nothing.
UnbindCancelsAndDetaches ==
    (nb.widget = Nil /\ nb.former # Nil) =>
        /\ nb.timers = 0
        /\ nb.attached[nb.former] = 0

\* C13: a disposed notebook file stays unbound: it has no widget, holds no
\* listener, has none left on any text model, and no timeout is pending.
DisposedFileStaysUnbound ==
    (Adopted /\ files[NotebookFile].disposed) =>
        /\ nb.widget = Nil
        /\ nb.listener = Nil
        /\ \A w \in Widgets : nb.attached[w] = 0
        /\ nb.timers = 0

\* C14: when find() has returned to a bound file, the keys of the file's
\* cell matches are exactly the cells returned, and the cell match of each
\* holds that cell, exactly the content matches and exactly the webview
\* matches returned for it.
RescanReplacesCellMatches ==
    [][(last'.op = "find" /\ nb.widget # Nil) =>
          LET cells == files'[NotebookFile].cells
              allMatches == echo'.raw
          IN  /\ {cells[i].k : i \in 1..Len(cells)} =
                     {allMatches[j].cell : j \in 1..Len(allMatches)}
              /\ \A j \in 1..Len(allMatches) :
                     MapHas(cells, allMatches[j].cell) =>
                        LET c == MapGet(cells, allMatches[j].cell)
                        IN  /\ c.cell = allMatches[j].cell
                            /\ {c.content[id].key : id \in DOMAIN c.content} =
                                   allMatches[j].contentMatches
                            /\ {<<c.webview[id].webviewIndex, c.webview[id].key>> :
                                      id \in DOMAIN c.webview} =
                                   allMatches[j].webviewMatches
      ]_vars

\* C15: a match of a cell match is read-only exactly when the cell match has
\* no live cell (none at all, or a CellSearchModel) or the match is a webview
\* match; the inherited flag of a MatchInNotebook is always false.
NotebookMatchReadonlyIffNoLiveCell ==
    \A f \in 1..Len(files) : \A i \in 1..Len(files[f].cells) :
        LET c == files[f].cells[i].v
            live == c.cell # Undefined /\ c.cell[1] = "view"
        IN  \A m \in {c.content[id] : id \in DOMAIN c.content}
                        \cup {c.webview[id] : id \in DOMAIN c.webview} :
                MatchInNotebookIsReadonly(c, m) <=> (~live \/ m.webviewIndex # NoIndex)

\* C16: folder.remove of a file match throws if the file's path is not a
\* key of the folder's file map and lies under none of its child folders.
RemoveOfUnknownFileThrows ==
    [][(last'.op = "remove" /\ last'.folder \in AllFolders) =>
          \A i \in 1..Len(last'.files) :
             LET F == last'.folder
                 res == files[last'.files[i]].resource
             IN  (/\ ~MapHas(folders[F].fileMatches, res)
                  /\ \A C \in SeqToSet(MapValues(folders[F].folderMatches)) :
                        ~IsEqualOrParent(res, folders[C].resource))
                 => thrown'
      ]_vars

\* C17: after addFileMatch on the workspace root has returned, for every
\* file match it created or merged into at a path p below the root: each
\* directory strictly between the root and p has exactly one folder in the
\* root's tree, that folder is a child of the folder of the directory above
\* it (of the root for the first), the file is in the file map of the folder
\* of p's directory, and every folder the call created is one of these.
IntermediateFoldersFollowThePath ==
    [][(last'.op = "addFileMatch" /\ last'.folder = W /\ ~thrown') =>
          \A i \in 1..Len(last'.files) :
             LET f == last'.files[i]
                 path == files'[f].resource
                 dirs == {SubSeq(path, 1, k) : k \in (Len(RootResource) + 1)..(Len(path) - 1)}
                 FolderOf(d) == IF d = RootResource THEN {W}
                                ELSE {C \in Visible' : folders'[C].resource = d}
                 Above(d) == SubSeq(d, 1, Len(d) - 1)
             IN  UriHasParent(RootResource, path) =>
                    /\ \A d \in dirs :
                          /\ Cardinality(FolderOf(d)) = 1
                          /\ \A C \in FolderOf(d) : \A P \in FolderOf(Above(d)) :
                                /\ folders'[C].parent = P
                                /\ MapGet(folders'[P].folderMatches, d) = C
                    /\ \A P \in FolderOf(Above(path)) :
                          MapGet(folders'[P].fileMatches, path) = f
                    /\ FolderOf(Above(path)) # {}
                    /\ \A C \in (Len(folders) + 1)..Len(folders') :
                          \E j \in 1..Len(last'.files) :
                             UriHasParent(folders'[C].resource, files'[last'.files[j]].resource)
      ]_vars

\* C20: when find() returns to a file that has been unbound since the
\* rescan started, the step changes no cell match and fires no change event,
\* and the text matches the file had when the rescan started are still there.
UnboundRescanHasNoEffect ==
    [][(last'.op = "find" /\ nb.widget = Nil /\ nb.finds # <<>>) =>
          /\ files'[NotebookFile].cells = files[NotebookFile].cells
          /\ nb'.fired = 0
          /\ Head(nb.finds).hadText => files'[NotebookFile].text # EmptyFn
      ]_vars

\* C21: when find() has returned to a bound file a cell for which the file
\* held a cell match, under the cell's id or under the raw id of the cell's
\* index, the cell match stored for the cell afterwards is not one that the
\* update constructed.
RescanKeepsCellMatchObjects ==
    [][(last'.op = "find" /\ nb.widget # Nil) =>
          \A j \in 1..Len(echo'.raw) :
             LET match == echo'.raw[j]
                 held == files[NotebookFile].cells
                 cells == files'[NotebookFile].cells
             IN  (MapHas(held, match.cell) \/ MapHas(held, <<"rawCell", match.index>>)) =>
                    /\ MapHas(cells, match.cell)
                    /\ ~MapGet(cells, match.cell).fresh
      ]_vars

(***************************************************************************)
(* The life of the two folders of the heading: results arrive at the       *)
(* workspace root and at the no-root folder, matches are removed from      *)
(* files, and folders are disposed, more than once too.                    *)
(***************************************************************************)
\* Raw file matches in the root, one level below it, and outside of it.
LifecycleRawFiles ==
    {RawFileMatch(<<"p", "a">>, {1, 2}),
     RawFileMatch(<<"p", "s", "a">>, {1}),
     RawFileMatch(<<"x", "a">>, {1})}

\* A search result arrives at the workspace root or at the no-root folder.
LifecycleAddFileMatch ==
    /\ \E F \in {W, N}, rawFileMatch \in LifecycleRawFiles,
          isAiContributed \in BOOLEAN :
         /\ AddFileMatchStep("addFileMatch", F, <<rawFileMatch>>, FALSE, isAiContributed)
         /\ echo' = [NoEcho EXCEPT !.ai = isAiContributed]

\* folder.dispose(), on any folder ever constructed.
DisposeCall ==
    /\ \E F \in AllFolders :
         LET t1 == Dispose(T0, F)
         IN  /\ Commit(t1)
             /\ last' = Last("dispose", F, <<>>, Nil, Outcome(t1))
    /\ echo' = NoEcho
    /\ hist' = NotPristine
    /\ UNCHANGED nb
    /\ UNCHANGED pending

NextLifecycle ==
    \/ LifecycleAddFileMatch
    \/ FileRemoveMatch
    \/ DisposeCall

SpecLifecycle == InitWith(FALSE) /\ [][NextLifecycle]_vars

\* C18: when dispose() of a folder returns, every file that was in its file
\* map or in its map of files removed but not disposed is disposed, its four
\* maps are empty, and the listeners of its onDispose have been called once
\* in all; no folder ever calls them a second time.
FolderDisposeReleasesAndNotifiesOnce ==
    [][(last'.op = "dispose") =>
          LET F == last'.folder
          IN  /\ \A f \in SeqToSet(MapValues(folders[F].fileMatches))
                          \cup SeqToSet(MapValues(folders[F].unDisposedFileMatches)) :
                     files'[f].disposed
              /\ folders'[F].fileMatches = <<>>
              /\ folders'[F].folderMatches = <<>>
              /\ folders'[F].unDisposedFileMatches = <<>>
              /\ folders'[F].unDisposedFolderMatches = <<>>
              /\ folders'[F].notified = 1
              /\ \A C \in 1..Len(folders') : folders'[C].notified <= 1
      ]_vars

\* The no-root folder was disposed, a file was created in it (a disposed
\* store registers nothing), and it has been disposed again.
NoRootDisposedAgain ==
    /\ last.op = "dispose"
    /\ last.folder = N
    /\ folders[N].notified = 1
    /\ \E f \in AllFiles :
         /\ files[f].parent = N
         /\ files[f].disposed
         /\ f \notin SeqToSet(folders[N].registeredFiles)

\* C19: when addFileMatch on the no-root folder has returned, every file
\* match it constructed has the folder as its parent, is in the folder's
\* file map under its path, and has no read-only (AI-contributed) match,
\* whatever the flag of the call; every live file of the folder that has
\* matches is in its file map; and the folder has no child folder, in the
\* map or in the lookup index.
NoRootFilesAreDirectAndNotAi ==
    [][(last'.op = "addFileMatch" /\ last'.folder = N /\ ~thrown') =>
          /\ \A f \in (Len(files) + 1)..Len(files') :
                /\ files'[f].parent = N
                /\ MapGet(folders'[N].fileMatches, files'[f].resource) = f
                /\ DOMAIN files'[f].text # {}
                /\ \A k \in DOMAIN files'[f].text : ~files'[f].text[k].ro
          /\ \A f \in 1..Len(files') :
                (files'[f].parent = N /\ ~files'[f].disposed /\ FileCount(files'[f]) > 0) =>
                    MapGet(folders'[N].fileMatches, files'[f].resource) = f
          /\ folders'[N].folderMatches = <<>>
          /\ folders'[N].folderMatchesMap = <<>>
          /\ \A C \in 1..Len(folders') : folders'[C].parent # N
      ]_vars

\* addFileMatch was called on the no-root folder with the AI flag set, for
\* a path two levels deep, and has created a file there: a merge would have
\* made the matches read-only.
NoRootFileCreatedUnderAiFlag ==
    /\ last.op = "addFileMatch"
    /\ last.folder = N
    /\ echo.ai
    /\ ~thrown
    /\ Len(last.files) = 1
    /\ LET f == last.files[1]
       IN  /\ files[f].parent = N
           /\ Len(files[f].resource) = 3
           /\ MapGet(folders[N].fileMatches, files[f].resource) = f
           /\ DOMAIN files[f].text # {}
           /\ \A k \in DOMAIN files[f].text : ~files[f].text[k].ro

(***************************************************************************)
(* Files that change under the workspace root while the heading sets and   *)
(* clears replacingAll: a file loses a match or gains one, and tells its   *)
(* parent with onFileChange.                                               *)
(***************************************************************************)
\* fileMatch.add(match, true) on a file match with text matches only: the
\* match enters _textMatches and the file fires onChange; the listener calls
\* the parent's onFileChange(fileMatch, undefined).
FileAddMatch ==
    \E f \in AllFiles :
      /\ ~files[f].disposed
      /\ files[f].kind = "plain"
      /\ \E k \in {1, 2} \ DOMAIN files[f].text :
           LET t1 == [T0 EXCEPT !.files[f].text = AddTextResults(@, {k}, FALSE)]
               t2 == FileFire(t1, f, FALSE)
           IN  /\ Commit(t2)
               /\ last' = Last("fileAdd", files[f].parent, <<f>>, Nil, Outcome(t2))
      /\ echo' = NoEcho
      /\ hist' = NotPristine
      /\ UNCHANGED nb
      /\ UNCHANGED pending

NextChange ==
    \/ AddFileMatchCall
    \/ FileRemoveMatch
    \/ FileAddMatch
    \/ SetReplacingAll

SpecChange == InitWith(FALSE) /\ [][NextChange]_vars

\* C22: a step in which a file tells its parent folder of a change fires
\* no event on that folder if the folder's replacingAll is set, and exactly
\* one, with the file as its only element, if it is not; either way the
\* file's path is out of the folder's file map if the file has no match
\* left, and in it if it has, the file itself being put there if the path
\* was missing.
OnFileChangeFiresUnlessReplacingAll ==
    [][(last'.op \in {"fileRemove", "fileAdd"}) =>
          LET f == last'.files[1]
              F == last'.folder
              res == files[f].resource
              fired == {i \in 1..Len(log') : log'[i].on = F}
          IN  /\ IF folders[F].replacingAll THEN fired = {}
                 ELSE /\ Cardinality(fired) = 1
                      /\ \A i \in fired : log'[i].ev.elements = <<f>>
              /\ IF FileCount(files'[f]) = 0
                 THEN ~MapHas(folders'[F].fileMatches, res)
                 ELSE /\ MapHas(folders'[F].fileMatches, res)
                      /\ ~MapHas(folders[F].fileMatches, res) =>
                             MapGet(folders'[F].fileMatches, res) = f
      ]_vars

\* While replacingAll was set on the root, a file of the root that had been
\* pruned gained a match: it is back in the root's file map, and no event
\* was fired.
ReAddedSilentlyWhileReplacingAll ==
    /\ last.op = "fileAdd"
    /\ last.folder = W
    /\ folders[W].replacingAll
    /\ log = <<>>
    /\ LET f == last.files[1]
       IN  /\ MapGet(folders[W].fileMatches, files[f].resource) = f
           /\ FileCount(files[f]) = 1

(***************************************************************************)
(* The cell matches of a notebook file over its life: made from raw cell   *)
(* results, merged into by addFileMatch, replaced by rescans of the bound  *)
(* widget, and removed one match at a time.                                *)
(***************************************************************************)
\* More raw results for the notebook file arrive at the workspace root, a
\* webview match of the cell at index 0, which has no model: addFileMatch
\* finds the file downstream and merges into it.
NotebookAddFileMatch ==
    /\ Adopted
    /\ AddFileMatchStep("addFileMatch", W,
                        <<RawNotebookFileMatch(NotebookRawFile.resource, {},
                                               <<RawCell(0, Undefined, {}, {<<0, 1>>})>>)>>,
                        FALSE, FALSE)
    /\ echo' = NoEcho

\* fileMatch.removeMatch(match) for a MatchInNotebook, a content match or
\* a webview match of the cell match stored under `key`:
\* cellParent.remove(match) deletes the match's id from both maps of the
\* cell match, and a cell match left without matches is deleted from
\* _cellMatches under its id.
NotebookRemoveMatch ==
    /\ Adopted
    /\ LET held == files[NotebookFile].cells
       IN  \E i \in 1..Len(held), kind \in {"content", "webview"} :
             \E id \in DOMAIN held[i].v[kind] :
                LET cellParent == held[i].v
                    removed == [cellParent EXCEPT
                                  !.content = [x \in (DOMAIN @) \ {id} |-> @[x]],
                                  !.webview = [x \in (DOMAIN @) \ {id} |-> @[x]]]
                    c1 == ReplaceCellMatch(held, CellId(cellParent), removed)
                    c2 == IF CellMatchCount(removed) = 0
                          THEN MapDelete(c1, CellId(cellParent)) ELSE c1
                IN  NotebookFrameWith("removeMatch",
                                      [T0 EXCEPT !.files[NotebookFile].cells = c2], B0,
                                      <<[key |-> held[i].k, kind |-> kind, id |-> id]>>)

\* createMatches(false) when modelService has a text model for the file's
\* resource: bindModel(model) and updateMatchesForModel(), which make the
\* text matches those found in the model; the raw match is not looked at.
NotebookCreateMatchesForModel(f, modelMatches) ==
    [f EXCEPT !.text = AddTextResults(EmptyFn, modelMatches, FALSE)]

\* A NotebookCompatibleFileMatch is constructed for the root while a text
\* model is open for its resource, in which the query matches nowhere, or
\* where the raw match says, or elsewhere; its matches are created, and it
\* is given to the root with doAddFile.
AdoptNotebookFileWithModel ==
    /\ Len(files) < MaxFiles
    /\ GetDownstreamFileMatch(T0, W, NotebookRawFile.resource) = Nil
    /\ ~folders[W].ai
    /\ \E modelMatches \in {{}, NotebookRawFile.results, {2}} :
         LET f == Len(files) + 1
             fileMatch == NotebookCreateMatchesForModel(
                              NewFile("notebook", NotebookRawFile.resource, W), modelMatches)
             t1 == DoAddFile([T0 EXCEPT !.files = Append(@, fileMatch)], W, f)
         IN  /\ Commit(t1)
             /\ last' = Last("doAddFile", W, <<f>>, Nil, Outcome(t1))
    /\ echo' = NoEcho
    /\ hist' = NotPristine
    /\ UNCHANGED nb
    /\ UNCHANGED pending

NextCells ==
    \/ AdoptNotebookFile
    \/ AdoptNotebookFileWithModel
    \/ NotebookAddFileMatch
    \/ FolderBindNotebookEditorWidget
    \/ FindReturn
    \/ NotebookRemoveMatch

SpecCells == InitWith(FALSE) /\ [][NextCells]_vars

\* C23: removeMatch of a match of a cell match takes exactly that match out
\* of the cell match, changes no other cell match and no text match, and
\* leaves the cell match in the file's cell map exactly if it still has a
\* content or a webview match.
RemoveMatchRemovesExactlyThatMatch ==
    [][(last'.op = "removeMatch") =>
          LET target == echo'.raw[1]
              held == files[NotebookFile].cells
              cells == files'[NotebookFile].cells
              cellParent == MapGet(held, target.key)
              content == IF target.kind = "content"
                         THEN DOMAIN cellParent.content \ {target.id}
                         ELSE DOMAIN cellParent.content
              webview == IF target.kind = "webview"
                         THEN DOMAIN cellParent.webview \ {target.id}
                         ELSE DOMAIN cellParent.webview
          IN  /\ files'[NotebookFile].text = files[NotebookFile].text
              /\ \A i \in 1..Len(held) :
                    CellId(held[i].v) # CellId(cellParent) =>
                        MapHas(cells, held[i].k) /\ MapGet(cells, held[i].k) = held[i].v
              /\ IF content \cup webview = {}
                 THEN \A i \in 1..Len(cells) : CellId(cells[i].v) # CellId(cellParent)
                 ELSE /\ MapHas(cells, target.key)
                      /\ DOMAIN MapGet(cells, target.key).content = content
                      /\ DOMAIN MapGet(cells, target.key).webview = webview
      ]_vars

\* C24: when the notebook file has been constructed and its matches
\* created, every result of the raw match is a text match of the file, and
\* every raw cell result has its cell match, under the raw cell's id, with
\* the content and the webview matches of the raw cell.
CreateMatchesIngestsRawPayload ==
    (last.op = "doAddFile" /\ files[last.files[1]].kind = "notebook") =>
        LET f == files[last.files[1]]
            rawCells == NotebookRawFile.cellResults
        IN  /\ NotebookRawFile.results \subseteq DOMAIN f.text
            /\ \A i \in 1..Len(rawCells) :
                  /\ MapHas(f.cells, RawCellId(rawCells[i]))
                  /\ LET c == MapGet(f.cells, RawCellId(rawCells[i]))
                     IN  /\ {c.content[id].key : id \in DOMAIN c.content} =
                                rawCells[i].contentResults
                         /\ {<<c.webview[id].webviewIndex, c.webview[id].key>> :
                                   id \in DOMAIN c.webview} = rawCells[i].webviewResults

\* C25: after every step, no path is a key of a folder's file map and of
\* its pending-removed file map at once; and when a file whose path is in
\* its parent's pending-removed map and not in its file map gains a match,
\* the doAddFile made by onFileChange leaves the file in the file map under
\* its path and the path out of the pending-removed map, and the step fires
\* nothing on the folder but the one event of onFileChange itself, which is
\* not fired under replacingAll.
DoAddFileClearsPendingRemoved ==
    [][/\ \A F \in 1..Len(folders') :
            MapKeys(folders'[F].fileMatches)
                \cap MapKeys(folders'[F].unDisposedFileMatches) = {}
       /\ last'.op = "fileAdd" =>
            LET f == last'.files[1]
                F == last'.folder
                res == files[f].resource
            IN  (MapHas(folders[F].unDisposedFileMatches, res)
                    /\ ~MapHas(folders[F].fileMatches, res)) =>
                  /\ MapGet(folders'[F].fileMatches, res) = f
                  /\ ~MapHas(folders'[F].unDisposedFileMatches, res)
                  /\ Cardinality({i \in 1..Len(log') : log'[i].on = F}) =
                        IF folders[F].replacingAll THEN 0 ELSE 1
      ]_vars

\* A file that had lost its last match, and so was pending-removed, has
\* gained a match while replacingAll was clear: it is in its parent's file
\* map again, the pending-removed map does not hold its path, and the one
\* event is the parent's.
PendingRemovedFileIsBack ==
    /\ last.op = "fileAdd"
    /\ ~folders[last.folder].replacingAll
    /\ LET f == last.files[1]
           F == last.folder
       IN  /\ FileCount(files[f]) = 1
           /\ MapGet(folders[F].fileMatches, files[f].resource) = f
           /\ ~MapHas(folders[F].unDisposedFileMatches, files[f].resource)
           /\ EventsOn(F) = 1

\* C26: in every state, the lookup index of every folder (the map that
\* getFolderMatch searches) holds the same folders under the same paths as
\* the folder's child-folder map, and none of them is disposed.
LookupIndexHoldsTheChildFolders ==
    \A F \in 1..Len(folders) :
        /\ SeqToSet(folders[F].folderMatchesMap) = SeqToSet(folders[F].folderMatches)
        /\ \A C \in SeqToSet(MapValues(folders[F].folderMatchesMap)) : ~folders[C].disposed

\* C27: in every state, for every folder of the root's tree and every path
\* a file match was ever made for, the file that getDownstreamFileMatch
\* returns for the path, if any, is one of allDownstreamFileMatches() of
\* the folder, and recursiveFileCount() of the folder is no less than the
\* number of files so returned.
DownstreamLookupAgreesWithListing ==
    \A F \in Visible :
        LET found == {GetDownstreamFileMatch(T0, F, files[f].resource) : f \in AllFiles}
                        \ {Nil}
        IN  /\ \A g \in found : InTree(F, g)
            /\ RecursiveFileCount(T0, F) >= Cardinality(found)

\* C28: in every state, every entry of a notebook file's cell map is
\* stored under the id its cell match has now; the keys of a map being
\* distinct, no cell match is then stored twice, and matches() lists the
\* matches of each cell match once.
CellMatchesAreKeyedByTheirId ==
    \A f \in AllFiles :
        \A i \in 1..Len(files[f].cells) :
            files[f].cells[i].k = CellId(files[f].cells[i].v)

\* C29: when the replace service succeeds for a replaceAll, the
\* continuation returns without throwing, also if a file of the batch has
\* lost its last match, and with it its place in the file map of its
\* folder, since replaceAll was called.
ReplaceAllResolvesThoughAFileWasPruned ==
    [][(pending.op = "replaceAll" /\ pending' = NoPending /\ last'.outcome # "rejected") =>
          /\ last'.outcome = "resolved"
          /\ ~thrown'
      ]_vars

\* C30: when find() returns to a file that is bound to a widget other than
\* the one the find was run on, the file having been unbound and bound
\* again in between, the step leaves the file's cell matches as they were.
StaleRescanIsNotStored ==
    [][(/\ last'.op = "find"
        /\ nb.finds # <<>>
        /\ nb.widget # Nil
        /\ Head(nb.finds).widget # nb.widget) =>
          files'[NotebookFile].cells = files[NotebookFile].cells
      ]_vars

\* C31: in every state the notebook file has at most one content-change
\* listener installed, counting the text models of all widgets; a listener
\* is installed only on the widget the file is bound to, so that changes on
\* another widget arm nothing; and an unbound file has none installed.
AtMostOneContentListener ==
    /\ nb.attached[1] + nb.attached[2] <= 1
    /\ \A w \in Widgets : nb.attached[w] > 0 => nb.widget = w
    /\ nb.widget = Nil => \A w \in Widgets : nb.attached[w] = 0

\* C32: when dispose() of a workspace root that was not disposed before
\* returns, every file match ever constructed for the root or for a folder
\* below it is disposed.
RootDisposeDisposesEveryFile ==
    [][(last'.op = "dispose" /\ last'.folder = W /\ ~folders[W].disposed) =>
          \A f \in AllFiles :
             W \in ChainFrom(files[f].parent, Len(folders)) => files'[f].disposed
      ]_vars

\* C33: when remove() on a folder throws, the folders and the files are
\* as they were before the call: no file of the list has left a file map
\* or been disposed.
ThrowingRemoveLeavesTheTree ==
    [][(last'.op = "remove" /\ thrown') => (folders' = folders /\ files' = files)]_vars

(***************************************************************************)
(* Binding through the folder.  The notebook file sits in the root's file  *)
(* map or in the file map of a folder below the root; the root is asked to *)
(* bind and to unbind the widget for the file's resource.                  *)
(***************************************************************************)
\* A NotebookCompatibleFileMatch is constructed and given, with doAddFile,
\* to the root or to an intermediate folder the root has just created.
AdoptNotebookFileAt ==
    /\ files = <<>>
    /\ \E below \in BOOLEAN :
         LET resource == IF below THEN <<"p", "s", "n">> ELSE NotebookRawFile.resource
             t0 == IF below
                   THEN CreateIntermediateFolderMatch(T0, W, <<"p", "s">>, <<"p", "s">>)
                   ELSE T0
             parent == IF below THEN Len(folders) + 1 ELSE W
             fileMatch == NotebookCreateMatches(NewFile("notebook", resource, parent),
                                                NotebookRawFile, folders[W].ai)
             t1 == DoAddFile([t0 EXCEPT !.files = Append(@, fileMatch)], parent, NotebookFile)
         IN  /\ Commit(t1)
             /\ last' = Last("doAddFile", parent, <<NotebookFile>>, Nil, Outcome(t1))
    /\ echo' = NoEcho
    /\ hist' = NotPristine
    /\ UNCHANGED nb
    /\ UNCHANGED pending

\* root.bindNotebookEditorWidget(editor, resource of the notebook file): the
\* file match under the resource in the root's own file map, if it is a
\* notebook file match, is bound and its rescan is started.
\* isNotebookFileMatch(undefined) is falsy, so for a resource that is not
\* in the file map nothing is done: the loop over folderMatchesIterator()
\* is in the else of `if (fileMatch)` inside that test, and is never run.
FolderBindCall ==
    /\ Adopted
    /\ nb.attached[1] + nb.attached[2] < MaxListeners
    /\ Len(nb.finds) < MaxFinds
    /\ \E editor \in Widgets :
         LET fileMatch == MapGet(folders[W].fileMatches, files[NotebookFile].resource)
             b == BindNotebookEditorWidget(B0, editor, TRUE)
             r == IF fileMatch # Nil /\ files[fileMatch].kind = "notebook"
                  THEN UpdateMatchesForEditorWidgetStart(T0,
                           IF nb.widget = editor THEN b ELSE [b EXCEPT !.former = Nil],
                           fileMatch)
                  ELSE [t |-> T0, b |-> B0]
         IN  NotebookFrameWith("folderBind", r.t, r.b, <<[editor |-> editor]>>)

\* root.unbindNotebookEditorWidget(editor, resource of the notebook file),
\* with the same test and the same branch that is never run.
FolderUnbindCall ==
    /\ Adopted
    /\ \E editor \in Widgets :
         LET fileMatch == MapGet(folders[W].fileMatches, files[NotebookFile].resource)
             b == UnbindNotebookEditorWidget(B0, editor)
             b1 == IF fileMatch # Nil /\ files[fileMatch].kind = "notebook"
                   THEN IF nb.widget # Nil /\ b.widget = Nil
                        THEN [b EXCEPT !.former = nb.widget] ELSE b
                   ELSE B0
         IN  NotebookFrameWith("folderUnbind", T0, b1, <<[editor |-> editor]>>)

NextReach ==
    \/ AdoptNotebookFileAt
    \/ NotebookBind
    \/ FolderBindCall
    \/ FolderUnbindCall
    \/ FindReturn

SpecReach == InitWith(FALSE) /\ [][NextReach]_vars

\* C34: when the root is asked to bind a widget for the resource of a
\* notebook file that is among its downstream files, the file is bound to
\* the widget afterwards and one more find() is awaited; when it is asked
\* to unbind the widget the file is bound to, the file is unbound
\* afterwards; whether the file is in the root's file map or in the file
\* map of a folder below the root.
FolderBindReachesTheFile ==
    [][(last'.op \in {"folderBind", "folderUnbind"} /\ InTree(W, NotebookFile)) =>
          LET editor == echo'.raw[1].editor
          IN  IF last'.op = "folderBind"
              THEN /\ nb'.widget = editor
                   /\ Len(nb'.finds) = Len(nb.finds) + 1
              ELSE nb.widget = editor => nb'.widget = Nil
      ]_vars

====
